---- MODULE Spec2Model ----
(***************************************************************************)
(* Model of the ICS-04 send_packet handler of ibc-rs                       *)
(* (crates/ibc/src/core/ics04_channel/handler/send_packet.rs) over the     *)
(* host context interfaces of ics04_channel/context.rs, and of the pure    *)
(* functions calculate_block_delay (ics04_channel/context.rs), the         *)
(* identifier validators (ics24_host/identifier/validate.rs) and           *)
(* TrustThreshold (ics07_tendermint/trust_threshold.rs).                   *)
(*                                                                         *)
(* The host state ctx_a is a record of the stores the context traits read  *)
(* and write.  Sequence is a u64 in the source; here it has the scaled     *)
(* width 0..SeqMax, SeqMax standing for u64::MAX.                          *)
(***************************************************************************)
EXTENDS Integers, Sequences, FiniteSets, TLC

VARIABLES
    ctx_a,      \* the host state behind SendPacket{Validation,Execution}Context
    last,       \* the last call made: its entry point and what it returned
    n0,         \* history: the channel's next_sequence_send at the start
    pending     \* packets validated and not yet executed (host-side batching)

vars == <<ctx_a, last, n0, pending>>

(***************************************************************************)
(* Bounds                                                                  *)
(***************************************************************************)
\* The largest Sequence value: the model's u64::MAX.
SeqMax == 3
\* At most this many validated packets wait for their execution.
MaxPending == 2
\* At most this many executions append events in one behaviour.
MaxSends == 2
\* The longest delay period and the longest expected time per block, in
\* whole seconds.
MaxDelaySecs == 11
MaxBlockSecs == 11
\* The longest run of one character an identifier starts with.
MaxIdLen == 130
\* The longest prefix, and the largest minimum and maximum identifier
\* lengths, validate_prefix_length is called with.
MaxPrefixLen == 12
MaxMinIdLen == 10
MaxMaxIdLen == 33
\* The largest numerator and denominator of a trust threshold.
MaxFraction == 11
\* The most connection hops of a message, and the largest revision number
\* and revision height of a proof height.
MaxHops == 2
MaxRevision == 1
\* At most this many packets are received in one behaviour.
MaxRecvs == 4
\* At most this many connection ends and channel ends are created on the host.
MaxConnections == 1
MaxChannels == 1

(***************************************************************************)
(* Data model                                                              *)
(***************************************************************************)
Height(n, h) == [revision_number |-> n, revision_height |-> h]

\* Height's total order: lexicographic on (revision_number, revision_height).
HeightGt(a, b) ==
    \/ a.revision_number > b.revision_number
    \/ /\ a.revision_number = b.revision_number
       /\ a.revision_height > b.revision_height

HeightLe(a, b) == ~HeightGt(a, b)

Heights == {Height(0, 2), Height(1, 1)}

\* TimeoutHeight: Never (no timeout) or At(height).
Never == [kind |-> "Never", height |-> Height(0, 0)]
At(h) == [kind |-> "At", height |-> h]
TimeoutHeights == {Never} \cup {At(h) : h \in Heights}

\* Timestamp: 0 is the "not set" sentinel, otherwise a time.
NoTimestamp == 0
Timestamps == {NoTimestamp, 1, 2}

PortA == "transfer"
ChanA == "channel-0"
ChanAbsent == "channel-1"
PortB == "transfer-b"
PortOther == "transfer-c"
ChanB == "channel-7"
ChanOther == "channel-9"
NoChannelId == "none"
ConnA == "connection-0"
ClientA == "07-tendermint-0"

ChannelStates == {"Init", "TryOpen", "Open", "Closed"}
Statuses == {"Active", "Frozen", "Expired"}

Packet(seq, chan_a, port_b, chan_b, data, th, ts) ==
    [seq_on_a |-> seq,
     port_id_on_a |-> PortA,
     chan_id_on_a |-> chan_a,
     port_id_on_b |-> port_b,
     chan_id_on_b |-> chan_b,
     data |-> data,
     timeout_height_on_b |-> th,
     timeout_timestamp_on_b |-> ts]

\* The packets the calls are made with: every sequence, destination and
\* timeout on the existing channel, a second payload without timeouts,
\* packets naming a channel the host does not hold, and packets to a port
\* that is not the counterparty's.
Packets ==
    {Packet(s, ChanA, PortB, cb, "d1", th, ts) :
        s \in 0..SeqMax, cb \in {ChanB, ChanOther},
        th \in TimeoutHeights, ts \in Timestamps}
    \cup {Packet(s, ChanA, PortB, ChanB, "d2", Never, NoTimestamp) : s \in 0..SeqMax}
    \cup {Packet(s, ChanAbsent, PortB, ChanB, "d1", Never, NoTimestamp) : s \in {1, SeqMax}}
    \cup {Packet(s, ChanA, PortOther, ChanB, "d1", Never, NoTimestamp) : s \in {1, SeqMax}}

Ok == [tag |-> "Ok"]
Err(e) == [tag |-> "Err", error |-> e]

(***************************************************************************)
(* Helpers of the repository that send_packet calls                        *)
(***************************************************************************)
\* Sequence::increment: saturating at the largest value.
increment(seq) == IF seq = SeqMax THEN SeqMax ELSE seq + 1

\* ChannelEnd::verify_not_closed
verify_not_closed(chan_end) ==
    IF chan_end.state = "Closed"
    THEN Err([kind |-> "ChannelClosed"])
    ELSE Ok

\* Counterparty::new(port_id, Some(channel_id))
Counterparty(port_id, channel_id) == [port_id |-> port_id, channel_id |-> channel_id]

\* ChannelEnd::verify_counterparty_matches
verify_counterparty_matches(chan_end, expected) ==
    IF chan_end.remote = expected
    THEN Ok
    ELSE Err([kind |-> "InvalidCounterparty"])

\* TimeoutHeight::has_expired: the timeout height must be strictly greater
\* than the given height; Never does not expire.
has_expired(timeout_height, height) ==
    /\ timeout_height.kind = "At"
    /\ HeightLe(timeout_height.height, height)

\* Timestamp::check_expiry(self, other): three-way.
check_expiry(self, other) ==
    IF self = NoTimestamp \/ other = NoTimestamp THEN "Unknown"
    ELSE IF self > other THEN "Expired"
    ELSE "NotExpired"

\* compute_packet_commitment: a digest of (data, timeout height, timeout
\* timestamp), collision-free.
compute_packet_commitment(data, timeout_height, timeout_timestamp) ==
    <<"commitment", data, timeout_height, timeout_timestamp>>

(***************************************************************************)
(* Paths                                                                   *)
(***************************************************************************)
ChannelEndPath(port_id, chan_id) == <<port_id, chan_id>>
SeqSendPath(port_id, chan_id) == <<port_id, chan_id>>
CommitmentPath(port_id, chan_id, seq) == <<port_id, chan_id, seq>>
ClientConsensusStatePath(client_id, height) == <<client_id, height>>

(***************************************************************************)
(* Host context: SendPacketValidationContext (reads)                       *)
(***************************************************************************)
channel_end(ctx, path) ==
    IF path \in DOMAIN ctx.channel_ends
    THEN [tag |-> "Ok", value |-> ctx.channel_ends[path]]
    ELSE Err([kind |-> "ChannelNotFound"])

connection_end(ctx, conn_id) ==
    IF conn_id \in DOMAIN ctx.connection_ends
    THEN [tag |-> "Ok", value |-> ctx.connection_ends[conn_id]]
    ELSE Err([kind |-> "ConnectionNotFound"])

client_state(ctx, client_id) ==
    IF client_id \in DOMAIN ctx.client_states
    THEN [tag |-> "Ok", value |-> ctx.client_states[client_id]]
    ELSE Err([kind |-> "ClientStateNotFound"])

client_consensus_state(ctx, path) ==
    IF path \in DOMAIN ctx.consensus_states
    THEN [tag |-> "Ok", value |-> ctx.consensus_states[path]]
    ELSE Err([kind |-> "ConsensusStateNotFound"])

get_next_sequence_send(ctx, path) ==
    IF path \in DOMAIN ctx.next_sequence_send
    THEN [tag |-> "Ok", value |-> ctx.next_sequence_send[path]]
    ELSE Err([kind |-> "MissingNextSendSeq"])

(***************************************************************************)
(* Host context: SendPacketExecutionContext (writes)                       *)
(***************************************************************************)
store_next_sequence_send(ctx, path, seq) ==
    [ctx EXCEPT !.next_sequence_send = (path :> seq) @@ @]

\* store_packet_commitment on a host that keeps the latest commitment only.
store_packet_commitment_latest_only(ctx, path, commitment) ==
    [ctx EXCEPT !.packet_commitments = (path :> commitment)]

store_packet_commitment(ctx, path, commitment) ==
    [ctx EXCEPT !.packet_commitments = (path :> commitment) @@ @]

emit_ibc_event(ctx, event) ==
    [ctx EXCEPT !.events = Append(@, event)]

log_message(ctx, message) ==
    [ctx EXCEPT !.logs = Append(@, message)]

\* Every write of the execution context returns a Result.  A write the host
\* refuses returns the host's error and stores nothing.
HostWrites ==
    {"store_next_sequence_send", "store_packet_commitment", "log_message",
     "emit_ibc_event(Message)", "emit_ibc_event(SendPacket)"}
NoFailure == "none"
HostError(write) == Err([kind |-> "HostError", write |-> write])

(***************************************************************************)
(* send_packet_validate                                                    *)
(***************************************************************************)
\* validate_sequence refusing only the sequences already used.
validate_sequence_below(ctx, packet) ==
    LET next_seq_send_on_a ==
            get_next_sequence_send(ctx, SeqSendPath(packet.port_id_on_a, packet.chan_id_on_a))
    IN  IF next_seq_send_on_a.tag = "Err" THEN next_seq_send_on_a
        ELSE IF packet.seq_on_a < next_seq_send_on_a.value
        THEN Err([kind |-> "InvalidPacketSequence",
                  given_sequence |-> packet.seq_on_a,
                  next_sequence |-> next_seq_send_on_a.value])
        ELSE Ok

\* validate_sequence refusing only the sequences not yet reached.
validate_sequence_above(ctx, packet) ==
    LET next_seq_send_on_a ==
            get_next_sequence_send(ctx, SeqSendPath(packet.port_id_on_a, packet.chan_id_on_a))
    IN  IF next_seq_send_on_a.tag = "Err" THEN next_seq_send_on_a
        ELSE IF packet.seq_on_a > next_seq_send_on_a.value
        THEN Err([kind |-> "InvalidPacketSequence",
                  given_sequence |-> packet.seq_on_a,
                  next_sequence |-> next_seq_send_on_a.value])
        ELSE Ok

\* The sequence check, last of the validation.
validate_sequence(ctx, packet) ==
    LET next_seq_send_on_a ==
            get_next_sequence_send(ctx, SeqSendPath(packet.port_id_on_a, packet.chan_id_on_a))
    IN  IF next_seq_send_on_a.tag = "Err" THEN next_seq_send_on_a
        ELSE IF packet.seq_on_a # next_seq_send_on_a.value
        THEN Err([kind |-> "InvalidPacketSequence",
                  given_sequence |-> packet.seq_on_a,
                  next_sequence |-> next_seq_send_on_a.value])
        ELSE Ok

\* validate_timestamp refusing every outcome of the comparison but NotExpired.
validate_timestamp_unknown_fatal(ctx, packet, client_id_on_a, latest_height_on_a) ==
    LET consensus_state_of_b_on_a ==
            client_consensus_state(ctx, ClientConsensusStatePath(client_id_on_a, latest_height_on_a))
    IN  IF consensus_state_of_b_on_a.tag = "Err" THEN consensus_state_of_b_on_a
        ELSE IF check_expiry(consensus_state_of_b_on_a.value.timestamp,
                             packet.timeout_timestamp_on_b) # "NotExpired"
        THEN Err([kind |-> "LowPacketTimestamp"])
        ELSE validate_sequence(ctx, packet)

\* The timeout-timestamp check against the consensus state at the client's
\* latest height, then the sequence check.
validate_timestamp(ctx, packet, client_id_on_a, latest_height_on_a) ==
    LET consensus_state_of_b_on_a ==
            client_consensus_state(ctx, ClientConsensusStatePath(client_id_on_a, latest_height_on_a))
    IN  IF consensus_state_of_b_on_a.tag = "Err" THEN consensus_state_of_b_on_a
        ELSE IF check_expiry(consensus_state_of_b_on_a.value.timestamp,
                             packet.timeout_timestamp_on_b) = "Expired"
        THEN Err([kind |-> "LowPacketTimestamp"])
        ELSE validate_sequence(ctx, packet)

\* validate_height looking at the sequence before the timeout height.
validate_height_sequence_first(ctx, packet, client_id_on_a, client_state_of_b_on_a) ==
    LET latest_height_on_a == client_state_of_b_on_a.latest_height
    IN  IF validate_sequence(ctx, packet) # Ok
        THEN validate_sequence(ctx, packet)
        ELSE IF has_expired(packet.timeout_height_on_b, latest_height_on_a)
        THEN Err([kind |-> "LowPacketHeight",
                  chain_height |-> latest_height_on_a,
                  timeout_height |-> packet.timeout_height_on_b])
        ELSE validate_timestamp(ctx, packet, client_id_on_a, latest_height_on_a)

\* validate_height without the check of the timeout height.
validate_height_unchecked(ctx, packet, client_id_on_a, client_state_of_b_on_a) ==
    validate_timestamp(ctx, packet, client_id_on_a, client_state_of_b_on_a.latest_height)

\* The timeout-height check against the client's latest height, then the rest.
validate_height(ctx, packet, client_id_on_a, client_state_of_b_on_a) ==
    LET latest_height_on_a == client_state_of_b_on_a.latest_height
    IN  IF has_expired(packet.timeout_height_on_b, latest_height_on_a)
        THEN Err([kind |-> "LowPacketHeight",
                  chain_height |-> latest_height_on_a,
                  timeout_height |-> packet.timeout_height_on_b])
        ELSE validate_timestamp(ctx, packet, client_id_on_a, latest_height_on_a)

\* validate_client checking the client status after the timeout height.
validate_client_status_late(ctx, packet, chan_end_on_a) ==
    LET conn_end_on_a == connection_end(ctx, chan_end_on_a.connection_hops[1])
    IN  IF conn_end_on_a.tag = "Err" THEN conn_end_on_a
        ELSE
        LET client_id_on_a == conn_end_on_a.value.client_id
            client_state_of_b_on_a == client_state(ctx, client_id_on_a)
        IN  IF client_state_of_b_on_a.tag = "Err" THEN client_state_of_b_on_a
            ELSE IF has_expired(packet.timeout_height_on_b,
                                client_state_of_b_on_a.value.latest_height)
            THEN Err([kind |-> "LowPacketHeight",
                      chain_height |-> client_state_of_b_on_a.value.latest_height,
                      timeout_height |-> packet.timeout_height_on_b])
            ELSE IF client_state_of_b_on_a.value.status # "Active"
            THEN Err([kind |-> "ClientNotActive",
                      status |-> client_state_of_b_on_a.value.status])
            ELSE validate_height(ctx, packet, client_id_on_a, client_state_of_b_on_a.value)

\* Connection and client lookup, the client status check, then the rest.
validate_client(ctx, packet, chan_end_on_a) ==
    LET conn_end_on_a == connection_end(ctx, chan_end_on_a.connection_hops[1])
    IN  IF conn_end_on_a.tag = "Err" THEN conn_end_on_a
        ELSE
        LET client_id_on_a == conn_end_on_a.value.client_id
            client_state_of_b_on_a == client_state(ctx, client_id_on_a)
        IN  IF client_state_of_b_on_a.tag = "Err" THEN client_state_of_b_on_a
            ELSE IF client_state_of_b_on_a.value.status # "Active"
            THEN Err([kind |-> "ClientNotActive",
                      status |-> client_state_of_b_on_a.value.status])
            ELSE validate_height(ctx, packet, client_id_on_a, client_state_of_b_on_a.value)

\* send_packet_validate accepting the channel end in Open only.
send_packet_validate_open_only(ctx, packet) ==
    LET chan_end_on_a ==
            channel_end(ctx, ChannelEndPath(packet.port_id_on_a, packet.chan_id_on_a))
    IN  IF chan_end_on_a.tag = "Err" THEN chan_end_on_a
        ELSE IF chan_end_on_a.value.state # "Open"
        THEN Err([kind |-> "ChannelClosed"])
        ELSE
        LET counterparty == Counterparty(packet.port_id_on_b, packet.chan_id_on_b)
        IN  IF verify_counterparty_matches(chan_end_on_a.value, counterparty) # Ok
            THEN verify_counterparty_matches(chan_end_on_a.value, counterparty)
            ELSE validate_client(ctx, packet, chan_end_on_a.value)

\* send_packet_validate comparing the counterparty only once the channel end
\* has its counterparty channel id set.
send_packet_validate_unset_counterparty(ctx, packet) ==
    LET chan_end_on_a ==
            channel_end(ctx, ChannelEndPath(packet.port_id_on_a, packet.chan_id_on_a))
    IN  IF chan_end_on_a.tag = "Err" THEN chan_end_on_a
        ELSE IF verify_not_closed(chan_end_on_a.value) # Ok
        THEN verify_not_closed(chan_end_on_a.value)
        ELSE
        LET counterparty == Counterparty(packet.port_id_on_b, packet.chan_id_on_b)
        IN  IF /\ chan_end_on_a.value.remote.channel_id # NoChannelId
               /\ verify_counterparty_matches(chan_end_on_a.value, counterparty) # Ok
            THEN verify_counterparty_matches(chan_end_on_a.value, counterparty)
            ELSE validate_client(ctx, packet, chan_end_on_a.value)

send_packet_validate(ctx, packet) ==
    LET chan_end_on_a ==
            channel_end(ctx, ChannelEndPath(packet.port_id_on_a, packet.chan_id_on_a))
    IN  IF chan_end_on_a.tag = "Err" THEN chan_end_on_a
        ELSE IF verify_not_closed(chan_end_on_a.value) # Ok
        THEN verify_not_closed(chan_end_on_a.value)
        ELSE
        LET counterparty == Counterparty(packet.port_id_on_b, packet.chan_id_on_b)
        IN  IF verify_counterparty_matches(chan_end_on_a.value, counterparty) # Ok
            THEN verify_counterparty_matches(chan_end_on_a.value, counterparty)
            ELSE validate_client(ctx, packet, chan_end_on_a.value)

(***************************************************************************)
(* send_packet_execute                                                     *)
(***************************************************************************)
\* Events and log of a send: the log line, the Message(Channel) marker, then
\* the SendPacket event.
execute_emit(ctx, packet) ==
    LET chan_end_on_a ==
            channel_end(ctx, ChannelEndPath(packet.port_id_on_a, packet.chan_id_on_a))
    IN  IF chan_end_on_a.tag = "Err" THEN [ctx |-> ctx, result |-> chan_end_on_a]
        ELSE
        LET conn_id_on_a == chan_end_on_a.value.connection_hops[1]
            event == [type |-> "SendPacket",
                      packet |-> packet,
                      ordering |-> chan_end_on_a.value.ordering,
                      connection_id |-> conn_id_on_a]
            logged == log_message(ctx, "success: packet send")
            marked == emit_ibc_event(logged, [type |-> "Message", module |-> "channel"])
        IN  [ctx |-> emit_ibc_event(marked, event), result |-> Ok]

\* execute_emit_on emitting the SendPacket event before the marker.
execute_emit_on_event_first(ctx, packet, failing) ==
    LET chan_end_on_a ==
            channel_end(ctx, ChannelEndPath(packet.port_id_on_a, packet.chan_id_on_a))
    IN  IF chan_end_on_a.tag = "Err" THEN [ctx |-> ctx, result |-> chan_end_on_a]
        ELSE
        LET conn_id_on_a == chan_end_on_a.value.connection_hops[1]
            event == [type |-> "SendPacket",
                      packet |-> packet,
                      ordering |-> chan_end_on_a.value.ordering,
                      connection_id |-> conn_id_on_a]
            logged == log_message(ctx, "success: packet send")
            sent == emit_ibc_event(logged, event)
        IN  IF failing = "log_message"
            THEN [ctx |-> ctx, result |-> HostError(failing)]
            ELSE IF failing = "emit_ibc_event(SendPacket)"
            THEN [ctx |-> logged, result |-> HostError(failing)]
            ELSE IF failing = "emit_ibc_event(Message)"
            THEN [ctx |-> sent, result |-> HostError(failing)]
            ELSE [ctx |-> emit_ibc_event(sent, [type |-> "Message", module |-> "channel"]),
                  result |-> Ok]

\* The same step on a host that refuses the write named failing (NoFailure:
\* none): each `?` returns the error and leaves the later writes undone.
execute_emit_on(ctx, packet, failing) ==
    LET chan_end_on_a ==
            channel_end(ctx, ChannelEndPath(packet.port_id_on_a, packet.chan_id_on_a))
    IN  IF chan_end_on_a.tag = "Err" THEN [ctx |-> ctx, result |-> chan_end_on_a]
        ELSE
        LET conn_id_on_a == chan_end_on_a.value.connection_hops[1]
            event == [type |-> "SendPacket",
                      packet |-> packet,
                      ordering |-> chan_end_on_a.value.ordering,
                      connection_id |-> conn_id_on_a]
            logged == log_message(ctx, "success: packet send")
            marked == emit_ibc_event(logged, [type |-> "Message", module |-> "channel"])
        IN  IF failing = "log_message"
            THEN [ctx |-> ctx, result |-> HostError(failing)]
            ELSE IF failing = "emit_ibc_event(Message)"
            THEN [ctx |-> logged, result |-> HostError(failing)]
            ELSE IF failing = "emit_ibc_event(SendPacket)"
            THEN [ctx |-> marked, result |-> HostError(failing)]
            ELSE [ctx |-> emit_ibc_event(marked, event), result |-> Ok]

\* send_packet_execute keeping a commitment that is already at the path.
send_packet_execute_keep_commitment(ctx, packet) ==
    LET seq_send_path_on_a == SeqSendPath(packet.port_id_on_a, packet.chan_id_on_a)
        next_seq_send_on_a == get_next_sequence_send(ctx, seq_send_path_on_a)
        commitment_path_on_a ==
            CommitmentPath(packet.port_id_on_a, packet.chan_id_on_a, packet.seq_on_a)
    IN  IF next_seq_send_on_a.tag = "Err" THEN [ctx |-> ctx, result |-> next_seq_send_on_a]
        ELSE
        LET counted == store_next_sequence_send(ctx, seq_send_path_on_a,
                                                increment(next_seq_send_on_a.value))
            committed ==
                IF commitment_path_on_a \in DOMAIN ctx.packet_commitments
                THEN counted
                ELSE store_packet_commitment(
                         counted,
                         commitment_path_on_a,
                         compute_packet_commitment(packet.data,
                                                   packet.timeout_height_on_b,
                                                   packet.timeout_timestamp_on_b))
        IN  execute_emit(committed, packet)

\* send_packet_execute storing the counter it read, without the increment.
send_packet_execute_no_increment(ctx, packet) ==
    LET seq_send_path_on_a == SeqSendPath(packet.port_id_on_a, packet.chan_id_on_a)
        next_seq_send_on_a == get_next_sequence_send(ctx, seq_send_path_on_a)
    IN  IF next_seq_send_on_a.tag = "Err" THEN [ctx |-> ctx, result |-> next_seq_send_on_a]
        ELSE
        LET counted == store_next_sequence_send(ctx, seq_send_path_on_a,
                                                next_seq_send_on_a.value)
            committed ==
                store_packet_commitment(
                    counted,
                    CommitmentPath(packet.port_id_on_a, packet.chan_id_on_a, packet.seq_on_a),
                    compute_packet_commitment(packet.data,
                                              packet.timeout_height_on_b,
                                              packet.timeout_timestamp_on_b))
        IN  execute_emit(committed, packet)

\* send_packet_execute storing the commitment under the incremented counter
\* instead of the packet's sequence.
send_packet_execute_at_next(ctx, packet) ==
    LET seq_send_path_on_a == SeqSendPath(packet.port_id_on_a, packet.chan_id_on_a)
        next_seq_send_on_a == get_next_sequence_send(ctx, seq_send_path_on_a)
    IN  IF next_seq_send_on_a.tag = "Err" THEN [ctx |-> ctx, result |-> next_seq_send_on_a]
        ELSE
        LET counted == store_next_sequence_send(ctx, seq_send_path_on_a,
                                                increment(next_seq_send_on_a.value))
            committed ==
                store_packet_commitment(
                    counted,
                    CommitmentPath(packet.port_id_on_a, packet.chan_id_on_a,
                                   increment(next_seq_send_on_a.value)),
                    compute_packet_commitment(packet.data,
                                              packet.timeout_height_on_b,
                                              packet.timeout_timestamp_on_b))
        IN  execute_emit(committed, packet)

\* send_packet_execute with an increment that wraps to 0 after the largest
\* Sequence.
send_packet_execute_wrapping(ctx, packet) ==
    LET seq_send_path_on_a == SeqSendPath(packet.port_id_on_a, packet.chan_id_on_a)
        next_seq_send_on_a == get_next_sequence_send(ctx, seq_send_path_on_a)
    IN  IF next_seq_send_on_a.tag = "Err" THEN [ctx |-> ctx, result |-> next_seq_send_on_a]
        ELSE
        LET counted == store_next_sequence_send(ctx, seq_send_path_on_a,
                                                (next_seq_send_on_a.value + 1) % (SeqMax + 1))
            committed ==
                store_packet_commitment(
                    counted,
                    CommitmentPath(packet.port_id_on_a, packet.chan_id_on_a, packet.seq_on_a),
                    compute_packet_commitment(packet.data,
                                              packet.timeout_height_on_b,
                                              packet.timeout_timestamp_on_b))
        IN  execute_emit(committed, packet)

send_packet_execute(ctx, packet) ==
    LET seq_send_path_on_a == SeqSendPath(packet.port_id_on_a, packet.chan_id_on_a)
        next_seq_send_on_a == get_next_sequence_send(ctx, seq_send_path_on_a)
    IN  IF next_seq_send_on_a.tag = "Err" THEN [ctx |-> ctx, result |-> next_seq_send_on_a]
        ELSE
        LET counted == store_next_sequence_send(ctx, seq_send_path_on_a,
                                                increment(next_seq_send_on_a.value))
            committed ==
                store_packet_commitment(
                    counted,
                    CommitmentPath(packet.port_id_on_a, packet.chan_id_on_a, packet.seq_on_a),
                    compute_packet_commitment(packet.data,
                                              packet.timeout_height_on_b,
                                              packet.timeout_timestamp_on_b))
        IN  execute_emit(committed, packet)

\* send_packet_execute_on undoing its writes when a later write fails.
send_packet_execute_on_rollback(ctx, packet, failing) ==
    LET seq_send_path_on_a == SeqSendPath(packet.port_id_on_a, packet.chan_id_on_a)
        next_seq_send_on_a == get_next_sequence_send(ctx, seq_send_path_on_a)
    IN  IF next_seq_send_on_a.tag = "Err" THEN [ctx |-> ctx, result |-> next_seq_send_on_a]
        ELSE IF failing = "store_next_sequence_send"
        THEN [ctx |-> ctx, result |-> HostError(failing)]
        ELSE
        LET counted == store_next_sequence_send(ctx, seq_send_path_on_a,
                                                increment(next_seq_send_on_a.value))
            committed ==
                store_packet_commitment(
                    counted,
                    CommitmentPath(packet.port_id_on_a, packet.chan_id_on_a, packet.seq_on_a),
                    compute_packet_commitment(packet.data,
                                              packet.timeout_height_on_b,
                                              packet.timeout_timestamp_on_b))
            emitted == execute_emit_on(committed, packet, failing)
        IN  IF failing = "store_packet_commitment"
            THEN [ctx |-> ctx, result |-> HostError(failing)]
            ELSE IF emitted.result # Ok
            THEN [ctx |-> ctx, result |-> emitted.result]
            ELSE emitted

\* send_packet_execute on a host that refuses the write named failing
\* (NoFailure: none).
send_packet_execute_on(ctx, packet, failing) ==
    LET seq_send_path_on_a == SeqSendPath(packet.port_id_on_a, packet.chan_id_on_a)
        next_seq_send_on_a == get_next_sequence_send(ctx, seq_send_path_on_a)
    IN  IF next_seq_send_on_a.tag = "Err" THEN [ctx |-> ctx, result |-> next_seq_send_on_a]
        ELSE IF failing = "store_next_sequence_send"
        THEN [ctx |-> ctx, result |-> HostError(failing)]
        ELSE
        LET counted == store_next_sequence_send(ctx, seq_send_path_on_a,
                                                increment(next_seq_send_on_a.value))
            committed ==
                store_packet_commitment(
                    counted,
                    CommitmentPath(packet.port_id_on_a, packet.chan_id_on_a, packet.seq_on_a),
                    compute_packet_commitment(packet.data,
                                              packet.timeout_height_on_b,
                                              packet.timeout_timestamp_on_b))
        IN  IF failing = "store_packet_commitment"
            THEN [ctx |-> counted, result |-> HostError(failing)]
            ELSE execute_emit_on(committed, packet, failing)

(***************************************************************************)
(* send_packet: validate, and only then execute                            *)
(***************************************************************************)
\* send_packet running the execution before it looks at the validation.
send_packet_execute_first(ctx, packet) ==
    LET validated == send_packet_validate(ctx, packet)
        executed == send_packet_execute(ctx, packet)
    IN  IF validated # Ok
        THEN [ctx |-> executed.ctx, result |-> validated]
        ELSE executed

\* send_packet without the validation.
send_packet_unvalidated(ctx, packet) == send_packet_execute(ctx, packet)

send_packet(ctx, packet) ==
    LET validated == send_packet_validate(ctx, packet)
    IN  IF validated # Ok
        THEN [ctx |-> ctx, result |-> validated]
        ELSE send_packet_execute(ctx, packet)

\* send_packet on a host that refuses the write named failing.
send_packet_on(ctx, packet, failing) ==
    LET validated == send_packet_validate(ctx, packet)
    IN  IF validated # Ok
        THEN [ctx |-> ctx, result |-> validated]
        ELSE send_packet_execute_on(ctx, packet, failing)

(***************************************************************************)
(* The host states the calls start from                                    *)
(***************************************************************************)
ChannelEnd(state, counterparty_chan) ==
    [state |-> state,
     ordering |-> "Unordered",
     remote |-> Counterparty(PortB, counterparty_chan),
     connection_hops |-> <<ConnA>>,
     version |-> "ics20-1"]

Host(state, counterparty_chan, status, latest, next_seq) ==
    [channel_ends |-> (ChannelEndPath(PortA, ChanA) :> ChannelEnd(state, counterparty_chan)),
     connection_ends |-> (ConnA :> [client_id |-> ClientA]),
     client_states |-> (ClientA :> [status |-> status, latest_height |-> latest]),
     consensus_states |-> (ClientConsensusStatePath(ClientA, latest) :> [timestamp |-> 2]),
     next_sequence_send |-> (SeqSendPath(PortA, ChanA) :> next_seq),
     packet_commitments |-> <<>>,
     events |-> <<>>,
     logs |-> <<>>]

NoCall == [op |-> "none"]
Call(op, result) == [op |-> op, result |-> result]

Init ==
    /\ n0 \in {1, SeqMax}
    /\ \E state \in ChannelStates, cp \in {NoChannelId, ChanB}, status \in Statuses,
          latest \in Heights :
            ctx_a = Host(state, cp, status, latest, n0)
    /\ last = NoCall
    /\ pending = {}

\* The number of executions that emitted their events.
Sends(ctx) == Len(ctx.logs)

(***************************************************************************)
(* Actions                                                                 *)
(***************************************************************************)
\* A call of send_packet(ctx_a, packet).
SendPacket(packet) ==
    /\ Sends(ctx_a) < MaxSends
    /\ LET r == send_packet(ctx_a, packet)
       IN  /\ ctx_a' = r.ctx
           /\ last' = Call("send_packet", r.result)
    /\ UNCHANGED <<n0, pending>>

\* A call of send_packet_validate(&ctx_a, &packet): a dry run.
SendPacketValidate(packet) ==
    /\ last' = Call("send_packet_validate", send_packet_validate(ctx_a, packet))
    /\ UNCHANGED <<ctx_a, n0, pending>>

Next == \E packet \in Packets : SendPacket(packet)

Spec == Init /\ [][Next]_vars

\* The calls of send_packet interleaved with dry runs.
NextDryRun ==
    \/ \E packet \in Packets : SendPacket(packet)
    \/ \E packet \in Packets : SendPacketValidate(packet)

SpecDryRun == Init /\ [][NextDryRun]_vars
(***************************************************************************)
(* Validation and execution called apart by the host: validations read a   *)
(* snapshot, executions are serialized (one at a time, each atomic).       *)
(***************************************************************************)
InitConc ==
    /\ n0 \in {1, SeqMax}
    /\ ctx_a = Host("Open", ChanB, "Active", Height(0, 2), n0)
    /\ last = NoCall
    /\ pending = {}

\* send_packet_validate(&ctx_a, &packet); a packet that passes is kept for a
\* later execution, with the number of executions committed so far.
ValidateForLater(packet) ==
    /\ Cardinality(pending) < MaxPending
    /\ LET r == send_packet_validate(ctx_a, packet)
       IN  /\ last' = Call("send_packet_validate", r)
           /\ pending' = IF r = Ok
                         THEN pending \cup {[packet |-> packet, at |-> Sends(ctx_a)]}
                         ELSE pending
    /\ UNCHANGED <<ctx_a, n0>>

\* send_packet_execute(&mut ctx_a, packet) of a packet validated before.  The
\* execution is fresh when no other execution was committed since.
ExecuteValidated(t) ==
    /\ t \in pending
    /\ Sends(ctx_a) < MaxSends
    /\ LET r == send_packet_execute(ctx_a, t.packet)
       IN  /\ ctx_a' = r.ctx
           /\ last' = [op |-> "send_packet_execute",
                       result |-> r.result,
                       fresh |-> t.at = Sends(ctx_a)]
    /\ pending' = pending \ {t}
    /\ UNCHANGED n0

\* The packets the host validates for later: every sequence and timeout
\* timestamp, both payloads, to the channel's counterparty, no timeout height.
PacketsForLater ==
    {packet \in Packets :
        /\ packet.chan_id_on_a = ChanA
        /\ packet.chan_id_on_b = ChanB
        /\ packet.timeout_height_on_b = Never}

NextConc ==
    \/ \E packet \in PacketsForLater : ValidateForLater(packet)
    \/ \E t \in pending : ExecuteValidated(t)

SpecConc == InitConc /\ [][NextConc]_vars

(***************************************************************************)
(* The calls of send_packet on a host whose writes may fail.               *)
(***************************************************************************)
\* A call of send_packet(ctx_a, packet) during which the host refuses the
\* write named failing, when the execution gets to it.
SendPacketOn(packet, failing) ==
    /\ Sends(ctx_a) < MaxSends
    /\ LET r == send_packet_on(ctx_a, packet, failing)
       IN  /\ ctx_a' = r.ctx
           /\ last' = Call("send_packet", r.result)
    /\ UNCHANGED <<n0, pending>>

\* The packets of these calls: every sequence, without a timeout and with a
\* timeout timestamp that has passed.
PacketsOn ==
    {packet \in PacketsForLater :
        packet.data = "d1" /\ packet.timeout_timestamp_on_b # 2}

NextFail ==
    \E packet \in PacketsOn, failing \in HostWrites \cup {NoFailure} :
        SendPacketOn(packet, failing)

SpecFail == InitConc /\ [][NextFail]_vars

(***************************************************************************)
(* The three entry points of send_packet.rs called on every host: hosts    *)
(* that hold a second channel, and hosts that lack one of the entries the  *)
(* validation looks up.                                                    *)
(***************************************************************************)
\* A second channel of the host, on the same port and connection.
ChanC == "channel-2"

\* The entry of ChanA's side that a host may lack.
NothingMissing == "nothing"
HostEntries ==
    {"channel_end", "connection_end", "client_state", "client_consensus_state",
     "next_sequence_send"}

\* A function without the argument x.
Without(f, x) == [y \in DOMAIN f \ {x} |-> f[y]]

\* Host(...) with the second channel, Open towards ChanOther with its own
\* counter at 1, and without the entry named missing.
HostWith(state, counterparty_chan, status, latest, next_seq, missing) ==
    LET one == Host(state, counterparty_chan, status, latest, next_seq)
        two == [one EXCEPT
                   !.channel_ends =
                       (ChannelEndPath(PortA, ChanC) :> ChannelEnd("Open", ChanOther)) @@ @,
                   !.next_sequence_send = (SeqSendPath(PortA, ChanC) :> 1) @@ @]
    IN  CASE missing = "channel_end" ->
                [two EXCEPT !.channel_ends = Without(@, ChannelEndPath(PortA, ChanA))]
          [] missing = "connection_end" ->
                [two EXCEPT !.connection_ends = Without(@, ConnA)]
          [] missing = "client_state" ->
                [two EXCEPT !.client_states = Without(@, ClientA)]
          [] missing = "client_consensus_state" ->
                [two EXCEPT !.consensus_states =
                     Without(@, ClientConsensusStatePath(ClientA, latest))]
          [] missing = "next_sequence_send" ->
                [two EXCEPT !.next_sequence_send = Without(@, SeqSendPath(PortA, ChanA))]
          [] OTHER -> two

InitHosts ==
    /\ n0 \in {1, SeqMax}
    /\ \E state \in {"Open", "Closed"}, status \in {"Active", "Frozen"},
          missing \in HostEntries \cup {NothingMissing} :
            ctx_a = HostWith(state, ChanB, status, Height(0, 2), n0, missing)
    /\ last = NoCall
    /\ pending = {}

\* A call of send_packet_execute(&mut ctx_a, packet) with no validation
\* before it.
SendPacketExecute(packet) ==
    /\ Sends(ctx_a) < MaxSends
    /\ LET r == send_packet_execute(ctx_a, packet)
       IN  /\ ctx_a' = r.ctx
           /\ last' = Call("send_packet_execute", r.result)
    /\ UNCHANGED <<n0, pending>>

\* The packets of these calls: on ChanA every sequence with each timeout
\* that decides a check, to the counterparty and to another channel; on
\* ChanC and on a channel the host does not hold, two sequences.
PacketsOfHosts ==
    {Packet(s, ChanA, PortB, cb, "d1", th, ts) :
        s \in 0..SeqMax, cb \in {ChanB, ChanOther},
        th \in {Never, At(Height(0, 2))}, ts \in {NoTimestamp, 1}}
    \cup {Packet(s, ChanC, PortB, ChanOther, "d2", Never, NoTimestamp) : s \in {1, 2}}
    \cup {Packet(s, ChanAbsent, PortB, ChanB, "d1", Never, NoTimestamp) : s \in {1, SeqMax}}

\* The packets executed without validation: two sequences on ChanA, each
\* with two timeouts (two commitments for one path), and a packet on a
\* channel the host does not hold.
PacketsToExecute ==
    {packet \in PacketsOfHosts :
        \/ /\ packet.chan_id_on_a = ChanA
           /\ packet.chan_id_on_b = ChanB
           /\ packet.timeout_height_on_b = Never
           /\ packet.seq_on_a \in {1, 2}
        \/ /\ packet.chan_id_on_a = ChanAbsent
           /\ packet.seq_on_a = 1}

NextHosts ==
    \/ \E packet \in PacketsOfHosts : SendPacket(packet)
    \/ \E packet \in PacketsOfHosts : SendPacketValidate(packet)
    \/ \E packet \in PacketsToExecute : SendPacketExecute(packet)

SpecHosts == InitHosts /\ [][NextHosts]_vars

(***************************************************************************)
(* The pure functions of the repository, each called on inputs drawn from  *)
(* bounded sets; last records the call, its arguments and what it          *)
(* returned.                                                               *)
(***************************************************************************)
InitCalls ==
    /\ n0 = 1
    /\ ctx_a = Host("Open", ChanB, "Active", Height(0, 2), n0)
    /\ last = NoCall
    /\ pending = {}

\* core::time::Duration: whole seconds and a sub-second part, here in
\* milliseconds.
MillisPerSec == 1000
Duration(secs, subsec_millis) == [secs |-> secs, subsec_millis |-> subsec_millis]
\* Duration::as_secs: the whole seconds, the sub-second part dropped.
as_secs(duration) == duration.secs
Durations(max_secs) == {Duration(secs, ms) : secs \in 0..max_secs, ms \in {0, 500}}

\* calculate_block_delay dividing the durations in milliseconds.
calculate_block_delay_in_millis(delay_period_time, max_expected_time_per_block) ==
    LET delay_period_millis ==
            delay_period_time.secs * MillisPerSec + delay_period_time.subsec_millis
        max_expected_millis ==
            max_expected_time_per_block.secs * MillisPerSec
                + max_expected_time_per_block.subsec_millis
    IN  IF max_expected_millis = 0 THEN 0
        ELSE IF delay_period_millis % max_expected_millis = 0
        THEN delay_period_millis \div max_expected_millis
        ELSE (delay_period_millis \div max_expected_millis) + 1

calculate_block_delay(delay_period_time, max_expected_time_per_block) ==
    LET delay_period_secs == as_secs(delay_period_time)
        max_expected_secs == as_secs(max_expected_time_per_block)
    IN  IF max_expected_secs = 0 THEN 0
        ELSE IF delay_period_secs % max_expected_secs = 0
        THEN delay_period_secs \div max_expected_secs
        ELSE (delay_period_secs \div max_expected_secs) + 1

\* A call of calculate_block_delay(&delay_period_time,
\* &max_expected_time_per_block).
CalculateBlockDelay(delay_period_time, max_expected_time_per_block) ==
    /\ last' = [op |-> "calculate_block_delay",
                delay_period_time |-> delay_period_time,
                max_expected_time_per_block |-> max_expected_time_per_block,
                result |-> calculate_block_delay(delay_period_time,
                                                 max_expected_time_per_block)]
    /\ UNCHANGED <<ctx_a, n0, pending>>

NextDelay ==
    \E delay_period_time \in Durations(MaxDelaySecs),
       max_expected_time_per_block \in Durations(MaxBlockSecs) :
        CalculateBlockDelay(delay_period_time, max_expected_time_per_block)

SpecDelay == InitCalls /\ [][NextDelay]_vars

(***************************************************************************)
(* ics24_host/identifier/validate.rs.  A string is a sequence of           *)
(* characters, each written as a one-character string; "U+00E9" and        *)
(* "U+20AC" stand for the characters of these code points (a letter of two *)
(* bytes, a symbol of three).  str::len is the length in bytes of UTF-8.   *)
(***************************************************************************)
PATH_SEPARATOR == "/"
VALID_SPECIAL_CHARS == <<".", "_", "+", "-", "#", "[", "]", "<", ">">>

\* char::is_alphanumeric on the characters used here: letters and digits,
\* ASCII or not.
is_alphanumeric(c) == c \in {"a", "Z", "7", "U+00E9"}
\* char::len_utf8
len_utf8(c) == IF c = "U+00E9" THEN 2 ELSE IF c = "U+20AC" THEN 3 ELSE 1

\* str::len: the number of bytes.
RECURSIVE str_len(_)
str_len(id) == IF id = <<>> THEN 0 ELSE len_utf8(Head(id)) + str_len(Tail(id))

\* str::contains(char)
str_contains(str, c) == \E i \in DOMAIN str : str[i] = c

\* validate_identifier_chars reporting the first offending character, be it
\* a separator or another invalid character.
validate_identifier_chars_first_offender(id) ==
    LET offenders ==
            {i \in DOMAIN id :
                ~(is_alphanumeric(id[i]) \/ str_contains(VALID_SPECIAL_CHARS, id[i]))}
        first == CHOOSE i \in offenders : \A j \in offenders : i <= j
    IN  IF offenders = {} THEN Ok
        ELSE IF id[first] = PATH_SEPARATOR
        THEN Err([kind |-> "ContainSeparator", id |-> id])
        ELSE Err([kind |-> "InvalidCharacter", id |-> id])

validate_identifier_chars(id) ==
    IF str_contains(id, PATH_SEPARATOR)
    THEN Err([kind |-> "ContainSeparator", id |-> id])
    ELSE IF ~(\A i \in DOMAIN id :
                 is_alphanumeric(id[i]) \/ str_contains(VALID_SPECIAL_CHARS, id[i]))
    THEN Err([kind |-> "InvalidCharacter", id |-> id])
    ELSE Ok

\* validate_identifier_length taking min as given, 0 included.
validate_identifier_length_min_as_given(id, min, max) ==
    LET length == str_len(id)
    IN  IF min <= length /\ length <= max
        THEN Ok
        ELSE Err([kind |-> "InvalidLength", id |-> id, length |-> length,
                  min |-> min, max |-> max])

\* validate_identifier_length with a range that leaves out its upper end.
validate_identifier_length_exclusive(id, min, max) ==
    LET min_1 == IF min > 1 THEN min ELSE 1
        length == str_len(id)
    IN  IF min_1 <= length /\ length < max
        THEN Ok
        ELSE Err([kind |-> "InvalidLength", id |-> id, length |-> length,
                  min |-> min_1, max |-> max])

validate_identifier_length(id, min, max) ==
    LET min_1 == IF min > 1 THEN min ELSE 1
        length == str_len(id)
    IN  IF min_1 <= length /\ length <= max
        THEN Ok
        ELSE Err([kind |-> "InvalidLength", id |-> id, length |-> length,
                  min |-> min_1, max |-> max])

validate_client_identifier(id) ==
    IF validate_identifier_chars(id) # Ok THEN validate_identifier_chars(id)
    ELSE validate_identifier_length(id, 9, 64)

validate_connection_identifier(id) ==
    IF validate_identifier_chars(id) # Ok THEN validate_identifier_chars(id)
    ELSE validate_identifier_length(id, 10, 64)

validate_port_identifier(id) ==
    IF validate_identifier_chars(id) # Ok THEN validate_identifier_chars(id)
    ELSE validate_identifier_length(id, 2, 128)

validate_channel_identifier(id) ==
    IF validate_identifier_chars(id) # Ok THEN validate_identifier_chars(id)
    ELSE validate_identifier_length(id, 8, 64)

\* The strings the validators are called with: a run of 0..MaxIdLen letters
\* followed by nothing, by one character of each kind, by a separator and
\* an invalid character in both orders, or by every other valid character.
Repeat(c, n) == [i \in 1..n |-> c]
Tails ==
    {<<>>, <<"/">>, <<"@">>, <<"-">>, <<"U+00E9">>, <<"U+20AC">>,
     <<"/", "@">>, <<"@", "/">>,
     <<"Z", "7", ".", "_", "+", "#", "[", "]", "<", ">">>}
Identifiers == {Repeat("a", n) \o tail : n \in 0..MaxIdLen, tail \in Tails}

InitIdent ==
    /\ n0 = 1
    /\ ctx_a = Host("Open", ChanB, "Active", Height(0, 2), n0)
    /\ \E id \in Identifiers : last = [op |-> "input", id |-> id]
    /\ pending = {}

ValidateClientIdentifier ==
    /\ last.op = "input"
    /\ last' = [op |-> "validate_client_identifier", id |-> last.id,
                result |-> validate_client_identifier(last.id)]
    /\ UNCHANGED <<ctx_a, n0, pending>>

ValidateConnectionIdentifier ==
    /\ last.op = "input"
    /\ last' = [op |-> "validate_connection_identifier", id |-> last.id,
                result |-> validate_connection_identifier(last.id)]
    /\ UNCHANGED <<ctx_a, n0, pending>>

ValidatePortIdentifier ==
    /\ last.op = "input"
    /\ last' = [op |-> "validate_port_identifier", id |-> last.id,
                result |-> validate_port_identifier(last.id)]
    /\ UNCHANGED <<ctx_a, n0, pending>>

ValidateChannelIdentifier ==
    /\ last.op = "input"
    /\ last' = [op |-> "validate_channel_identifier", id |-> last.id,
                result |-> validate_channel_identifier(last.id)]
    /\ UNCHANGED <<ctx_a, n0, pending>>

ValidateIdentifierChars ==
    /\ last.op = "input"
    /\ last' = [op |-> "validate_identifier_chars", id |-> last.id,
                result |-> validate_identifier_chars(last.id)]
    /\ UNCHANGED <<ctx_a, n0, pending>>

\* The (min, max) of the direct calls of validate_identifier_length: every
\* small pair, min above max included, and the windows of the identifier
\* types.
LengthWindows ==
    {<<min, max>> : min \in 0..3, max \in 0..4}
    \cup {<<0, 64>>, <<5, 3>>, <<9, 64>>, <<10, 64>>, <<2, 128>>, <<8, 64>>}

ValidateIdentifierLength ==
    /\ last.op = "input"
    /\ \E window \in LengthWindows :
           last' = [op |-> "validate_identifier_length", id |-> last.id,
                    min |-> window[1], max |-> window[2],
                    result |-> validate_identifier_length(last.id, window[1], window[2])]
    /\ UNCHANGED <<ctx_a, n0, pending>>

NextIdent ==
    \/ ValidateClientIdentifier
    \/ ValidateConnectionIdentifier
    \/ ValidatePortIdentifier
    \/ ValidateChannelIdentifier
    \/ ValidateIdentifierChars
    \/ ValidateIdentifierLength

SpecIdent == InitIdent /\ [][NextIdent]_vars

(***************************************************************************)
(* validate_prefix_length and the identifiers built from a prefix.         *)
(***************************************************************************)
\* u64::saturating_sub
saturating_sub(a, b) == IF a > b THEN a - b ELSE 0

\* validate_prefix_length leaving room for the digits and not for the "-".
validate_prefix_length_no_dash(prefix, min_id_length, max_id_length) ==
    LET min == saturating_sub(min_id_length, 2)
        max == saturating_sub(max_id_length, 20)
    IN  validate_identifier_length(prefix, min, max)

validate_prefix_length(prefix, min_id_length, max_id_length) ==
    LET min == saturating_sub(min_id_length, 2)
        max == saturating_sub(max_id_length, 21)
    IN  validate_identifier_length(prefix, min, max)

\* The u64 values an identifier is built with, each as the decimal numeral
\* its formatting gives: 0, the powers of ten 1 .. 10^19, and u64::MAX.
U64Numerals ==
    {<<"0">>}
    \cup {<<"1">> \o Repeat("0", k) : k \in 0..19}
    \cup {<<"1", "8", "4", "4", "6", "7", "4", "4", "0", "7",
            "3", "7", "0", "9", "5", "5", "1", "6", "1", "5">>}

\* format!("{prefix}-{n}")
format_identifier(prefix, numeral) == prefix \o <<"-">> \o numeral

\* The prefixes: runs of letters, and one with a letter of two bytes.
Prefixes ==
    {Repeat("a", n) : n \in 0..MaxPrefixLen} \cup {<<"U+00E9">>, <<"a", "U+00E9">>}

InitPrefix ==
    /\ n0 = 1
    /\ ctx_a = Host("Open", ChanB, "Active", Height(0, 2), n0)
    /\ \E prefix \in Prefixes, min_id_length \in 0..MaxMinIdLen,
          max_id_length \in (0..MaxMaxIdLen) \cup {64} :
            last = [op |-> "input", prefix |-> prefix,
                    min_id_length |-> min_id_length, max_id_length |-> max_id_length]
    /\ pending = {}

\* A call of validate_prefix_length(prefix, min_id_length, max_id_length).
ValidatePrefixLength ==
    /\ last.op = "input"
    /\ last' = [op |-> "validate_prefix_length", prefix |-> last.prefix,
                min_id_length |-> last.min_id_length,
                max_id_length |-> last.max_id_length,
                result |-> validate_prefix_length(last.prefix, last.min_id_length,
                                                  last.max_id_length)]
    /\ UNCHANGED <<ctx_a, n0, pending>>

\* An identifier "{prefix}-{n}" is built from a prefix that passed, and its
\* length is validated against the same bounds.
FormatIdentifier(numeral) ==
    /\ last.op = "validate_prefix_length"
    /\ last.result = Ok
    /\ LET id == format_identifier(last.prefix, numeral)
       IN  last' = [op |-> "validate_identifier_length", id |-> id,
                    prefix |-> last.prefix,
                    min_id_length |-> last.min_id_length,
                    max_id_length |-> last.max_id_length,
                    result |-> validate_identifier_length(id, last.min_id_length,
                                                          last.max_id_length)]
    /\ UNCHANGED <<ctx_a, n0, pending>>

NextPrefix ==
    \/ ValidatePrefixLength
    \/ \E numeral \in U64Numerals : FormatIdentifier(numeral)

SpecPrefix == InitPrefix /\ [][NextPrefix]_vars

(***************************************************************************)
(* ics07_tendermint/trust_threshold.rs.  The three fraction types are      *)
(* records that carry their type: the TrustThreshold of this crate, the    *)
(* TrustThresholdFraction of the consensus library and the raw protobuf    *)
(* Fraction.                                                               *)
(***************************************************************************)
OkValue(value) == [tag |-> "Ok", value |-> value]

TrustThreshold(numerator, denominator) ==
    [type |-> "TrustThreshold", numerator |-> numerator, denominator |-> denominator]
TrustThresholdFraction(numerator, denominator) ==
    [type |-> "TrustThresholdFraction", numerator |-> numerator, denominator |-> denominator]
Fraction(numerator, denominator) ==
    [type |-> "Fraction", numerator |-> numerator, denominator |-> denominator]

ONE_THIRD == TrustThreshold(1, 3)
TWO_THIRDS == TrustThreshold(2, 3)
ZERO == TrustThreshold(0, 0)

\* TrustThreshold::new without the check that refuses a numerator above the
\* denominator.
TrustThreshold_new_allows_above(numerator, denominator) ==
    IF \/ (denominator = 0 /\ numerator # 0)
       \/ (numerator = denominator /\ numerator # 0)
    THEN Err([kind |-> "InvalidTrustThreshold",
              numerator |-> numerator, denominator |-> denominator])
    ELSE OkValue(TrustThreshold(numerator, denominator))

\* TrustThreshold::new without the check that refuses a fraction equal to 1.
TrustThreshold_new_allows_one(numerator, denominator) ==
    IF \/ numerator > denominator
       \/ (denominator = 0 /\ numerator # 0)
    THEN Err([kind |-> "InvalidTrustThreshold",
              numerator |-> numerator, denominator |-> denominator])
    ELSE OkValue(TrustThreshold(numerator, denominator))

\* TrustThreshold::new
TrustThreshold_new(numerator, denominator) ==
    IF \/ numerator > denominator
       \/ (denominator = 0 /\ numerator # 0)
       \/ (numerator = denominator /\ numerator # 0)
    THEN Err([kind |-> "InvalidTrustThreshold",
              numerator |-> numerator, denominator |-> denominator])
    ELSE OkValue(TrustThreshold(numerator, denominator))

\* TrustThresholdFraction::new of the consensus library: the same invariant
\* under a stricter rule, a fraction in [1/3, 1) with a nonzero denominator.
TrustThresholdFraction_new(numerator, denominator) ==
    IF \/ numerator >= denominator
       \/ denominator = 0
       \/ 3 * numerator < denominator
    THEN Err([kind |-> "TrustThresholdFraction"])
    ELSE OkValue(TrustThresholdFraction(numerator, denominator))

\* From<TrustThresholdFraction> for TrustThreshold with the two fields
\* exchanged.
TrustThreshold_from_swapped(t) == TrustThreshold(t.denominator, t.numerator)

\* impl From<TrustThresholdFraction> for TrustThreshold
TrustThreshold_from(t) == TrustThreshold(t.numerator, t.denominator)

\* TryFrom<TrustThreshold> for TrustThresholdFraction reporting a refusal of
\* the library with the error of the constructor.
TrustThresholdFraction_try_from_as_invalid(t) ==
    IF TrustThresholdFraction_new(t.numerator, t.denominator).tag = "Err"
    THEN Err([kind |-> "InvalidTrustThreshold",
              numerator |-> t.numerator, denominator |-> t.denominator])
    ELSE TrustThresholdFraction_new(t.numerator, t.denominator)

\* impl TryFrom<TrustThreshold> for TrustThresholdFraction
TrustThresholdFraction_try_from(t) ==
    IF TrustThresholdFraction_new(t.numerator, t.denominator).tag = "Err"
    THEN Err([kind |-> "FailedTrustThresholdConversion",
              numerator |-> t.numerator, denominator |-> t.denominator])
    ELSE TrustThresholdFraction_new(t.numerator, t.denominator)

\* impl From<TrustThreshold> for Fraction
Fraction_from(t) == Fraction(t.numerator, t.denominator)

\* impl TryFrom<Fraction> for TrustThreshold
TrustThreshold_try_from(value) == TrustThreshold_new(value.numerator, value.denominator)

\* impl Default for TrustThreshold
TrustThreshold_default == ONE_THIRD

\* The last call returned a TrustThreshold.
HoldsTrustThreshold(call) ==
    /\ call.op \in {"TrustThreshold::new", "TrustThreshold::from", "TrustThreshold::try_from"}
    /\ call.result.tag = "Ok"

\* TrustThreshold::new(numerator, denominator)
New(numerator, denominator) ==
    /\ last' = [op |-> "TrustThreshold::new",
                numerator |-> numerator, denominator |-> denominator,
                result |-> TrustThreshold_new(numerator, denominator)]
    /\ UNCHANGED <<ctx_a, n0, pending>>

\* TrustThresholdFraction::try_from(t), t the TrustThreshold just returned.
TryIntoTrustThresholdFraction ==
    /\ HoldsTrustThreshold(last)
    /\ last' = [op |-> "TrustThresholdFraction::try_from",
                arg |-> last.result.value,
                result |-> TrustThresholdFraction_try_from(last.result.value)]
    /\ UNCHANGED <<ctx_a, n0, pending>>

\* TrustThreshold::from(fraction), fraction the one just converted to.
FromTrustThresholdFraction ==
    /\ last.op = "TrustThresholdFraction::try_from"
    /\ last.result.tag = "Ok"
    /\ last' = [op |-> "TrustThreshold::from",
                arg |-> last.result.value,
                origin |-> last.arg,
                result |-> OkValue(TrustThreshold_from(last.result.value))]
    /\ UNCHANGED <<ctx_a, n0, pending>>

\* Fraction::from(t), t the TrustThreshold just returned.
IntoFraction ==
    /\ HoldsTrustThreshold(last)
    /\ last' = [op |-> "Fraction::from",
                arg |-> last.result.value,
                result |-> OkValue(Fraction_from(last.result.value))]
    /\ UNCHANGED <<ctx_a, n0, pending>>

\* TrustThreshold::try_from(raw), raw the Fraction just converted to.
TryFromFraction ==
    /\ last.op = "Fraction::from"
    /\ last' = [op |-> "TrustThreshold::try_from",
                arg |-> last.result.value,
                origin |-> last.arg,
                result |-> TrustThreshold_try_from(last.result.value)]
    /\ UNCHANGED <<ctx_a, n0, pending>>

\* TrustThreshold::try_from(raw), raw any Fraction of the wire.
TryFromRawFraction(numerator, denominator) ==
    /\ last' = [op |-> "TrustThreshold::try_from(raw)",
                arg |-> Fraction(numerator, denominator),
                result |-> TrustThreshold_try_from(Fraction(numerator, denominator))]
    /\ UNCHANGED <<ctx_a, n0, pending>>

\* TrustThreshold::from(fraction), fraction any TrustThresholdFraction the
\* consensus library constructs.
FromLibraryFraction(numerator, denominator) ==
    /\ TrustThresholdFraction_new(numerator, denominator).tag = "Ok"
    /\ last' = [op |-> "TrustThreshold::from(library)",
                arg |-> TrustThresholdFraction_new(numerator, denominator).value,
                result |-> OkValue(TrustThreshold_from(
                               TrustThresholdFraction_new(numerator, denominator).value))]
    /\ UNCHANGED <<ctx_a, n0, pending>>

\* TrustThreshold::default()
DefaultTrustThreshold ==
    /\ last' = [op |-> "TrustThreshold::default", result |-> OkValue(TrustThreshold_default)]
    /\ UNCHANGED <<ctx_a, n0, pending>>

\* A read of TrustThreshold::ONE_THIRD, ::TWO_THIRDS or ::ZERO.
ConstantTrustThreshold ==
    /\ \E constant \in {ONE_THIRD, TWO_THIRDS, ZERO} :
           last' = [op |-> "TrustThreshold::constant", result |-> OkValue(constant)]
    /\ UNCHANGED <<ctx_a, n0, pending>>

NextTrust ==
    \/ \E numerator \in 0..MaxFraction, denominator \in 0..MaxFraction :
           New(numerator, denominator)
    \/ TryIntoTrustThresholdFraction
    \/ FromTrustThresholdFraction
    \/ IntoFraction
    \/ TryFromFraction
    \/ \E numerator \in 0..MaxFraction, denominator \in 0..MaxFraction :
           TryFromRawFraction(numerator, denominator)
    \/ \E numerator \in 0..MaxFraction, denominator \in 0..MaxFraction :
           FromLibraryFraction(numerator, denominator)
    \/ DefaultTrustThreshold
    \/ ConstantTrustThreshold

SpecTrust == InitCalls /\ [][NextTrust]_vars

(***************************************************************************)
(* Messages: the conversions between the raw (protobuf) messages and the   *)
(* domain messages of MsgChannelOpenInit, MsgChannelOpenTry,               *)
(* MsgConnectionOpenConfirm and MsgAcknowledgement.  A raw message holds   *)
(* strings, numbers, byte strings and optional sub-messages; a domain      *)
(* message holds values that carry their type.  An identifier string is a  *)
(* sequence of characters, as in validate.rs; the other strings are        *)
(* strings.                                                                *)
(***************************************************************************)
\* Option::None; Some(value) is the value.
None == [type |-> "None"]

\* FromStr for PortId, ChannelId and ConnectionId: the validator of the type,
\* then the wrapped string.
PortId_from_str(s) ==
    IF validate_port_identifier(s) # Ok
    THEN validate_port_identifier(s)
    ELSE OkValue([type |-> "PortId", str |-> s])

ChannelId_from_str(s) ==
    IF validate_channel_identifier(s) # Ok
    THEN validate_channel_identifier(s)
    ELSE OkValue([type |-> "ChannelId", str |-> s])

ConnectionId_from_str(s) ==
    IF validate_connection_identifier(s) # Ok
    THEN validate_connection_identifier(s)
    ELSE OkValue([type |-> "ConnectionId", str |-> s])

\* Display (to_string, as_str) of an identifier, a Version and a Signer.
to_string(value) == value.str

\* From<String> for Version and for Signer: any string, kept as it is.
Version_from(s) == [type |-> "Version", str |-> s]
Version_empty == Version_from("")
Signer_from(s) == [type |-> "Signer", str |-> s]

\* TryFrom<Vec<u8>> for CommitmentProofBytes: an empty proof is refused.
CommitmentProofBytes_try_from(bytes) ==
    IF bytes = <<>>
    THEN Err([kind |-> "EmptyMerkleProof"])
    ELSE OkValue([type |-> "CommitmentProofBytes", bytes |-> bytes])

\* From<CommitmentProofBytes> for Vec<u8>
CommitmentProofBytes_into(proof) == proof.bytes

\* TryFrom<Vec<u8>> for Acknowledgement: a non-empty payload.
Acknowledgement_try_from(bytes) ==
    IF bytes = <<>>
    THEN Err([kind |-> "InvalidAcknowledgement"])
    ELSE OkValue([type |-> "Acknowledgement", bytes |-> bytes])

\* From<Acknowledgement> for Vec<u8>
Acknowledgement_into(acknowledgement) == acknowledgement.bytes

\* The raw height of the wire format.
RawHeight(n, h) == [type |-> "RawHeight", revision_number |-> n, revision_height |-> h]

\* TryFrom<RawHeight> for Height: a valid height has revision_height > 0.
Height_try_from(raw_height) ==
    IF raw_height.revision_height = 0
    THEN Err([kind |-> "InvalidHeight"])
    ELSE OkValue(Height(raw_height.revision_number, raw_height.revision_height))

\* From<Height> for RawHeight
Height_into(height) == RawHeight(height.revision_number, height.revision_height)

\* raw_msg.proof_height.and_then(|raw_height| raw_height.try_into().ok())
proof_height_and_then(proof_height) ==
    IF proof_height = None THEN None
    ELSE IF Height_try_from(proof_height).tag = "Err" THEN None
    ELSE Height_try_from(proof_height).value

\* State and Order of a channel end, and their numbers on the wire.
State_from_i32(n) ==
    CASE n = 1 -> OkValue("Init")
      [] n = 2 -> OkValue("TryOpen")
      [] n = 3 -> OkValue("Open")
      [] n = 4 -> OkValue("Closed")
      [] OTHER -> Err([kind |-> "UnknownState", state |-> n])

State_as_i32(state) ==
    CASE state = "Init" -> 1
      [] state = "TryOpen" -> 2
      [] state = "Open" -> 3
      [] state = "Closed" -> 4

Order_from_i32(n) ==
    CASE n = 1 -> OkValue("Unordered")
      [] n = 2 -> OkValue("Ordered")
      [] OTHER -> Err([kind |-> "UnknownOrderType", type_id |-> n])

Order_as_i32(ordering) ==
    CASE ordering = "Unordered" -> 1
      [] ordering = "Ordered" -> 2

\* The raw counterparty and the raw channel of the wire format.
RawCounterparty(port_id, channel_id) ==
    [type |-> "RawCounterparty", port_id |-> port_id, channel_id |-> channel_id]

RawChannel(state, ordering, counterparty, connection_hops, version) ==
    [type |-> "RawChannel", state |-> state, ordering |-> ordering,
     counterparty |-> counterparty, connection_hops |-> connection_hops,
     version |-> version]

\* TryFrom<RawCounterparty> for Counterparty: an empty channel id is None.
Counterparty_try_from(raw_counterparty) ==
    LET port_id == PortId_from_str(raw_counterparty.port_id)
        channel_id == ChannelId_from_str(raw_counterparty.channel_id)
    IN  IF raw_counterparty.channel_id = <<>>
        THEN IF port_id.tag = "Err" THEN Err([kind |-> "InvalidIdentifier", source |-> port_id.error])
             ELSE OkValue(Counterparty(port_id.value, None))
        ELSE IF channel_id.tag = "Err" THEN Err([kind |-> "InvalidIdentifier", source |-> channel_id.error])
        ELSE IF port_id.tag = "Err" THEN Err([kind |-> "InvalidIdentifier", source |-> port_id.error])
        ELSE OkValue(Counterparty(port_id.value, channel_id.value))

\* From<Counterparty> for RawCounterparty: None is the empty string.
Counterparty_into(counterparty) ==
    RawCounterparty(to_string(counterparty.port_id),
                    IF counterparty.channel_id = None THEN <<>>
                    ELSE to_string(counterparty.channel_id))

\* ChannelEnd::new_without_validation
new_without_validation(state, ordering, remote, connection_hops, version) ==
    [state |-> state, ordering |-> ordering, remote |-> remote,
     connection_hops |-> connection_hops, version |-> version]

\* The connection hops of a raw channel, each parsed into a ConnectionId.
RECURSIVE parse_connection_hops(_)
parse_connection_hops(hops) ==
    IF hops = <<>> THEN OkValue(<<>>)
    ELSE LET conn_id == ConnectionId_from_str(Head(hops))
             rest == parse_connection_hops(Tail(hops))
         IN  IF conn_id.tag = "Err"
             THEN Err([kind |-> "InvalidIdentifier", source |-> conn_id.error])
             ELSE IF rest.tag = "Err" THEN rest
             ELSE OkValue(<<conn_id.value>> \o rest.value)

\* TryFrom<RawChannel> for ChannelEnd: a state and an ordering of the
\* enumerations, a counterparty and connection hops that parse.
ChannelEnd_try_from(value) ==
    LET chan_state == State_from_i32(value.state)
        chan_ordering == Order_from_i32(value.ordering)
        remote == Counterparty_try_from(value.counterparty)
        connection_hops == parse_connection_hops(value.connection_hops)
    IN  IF chan_state.tag = "Err" THEN chan_state
        ELSE IF chan_ordering.tag = "Err" THEN chan_ordering
        ELSE IF remote.tag = "Err" THEN remote
        ELSE IF connection_hops.tag = "Err" THEN connection_hops
        ELSE OkValue(new_without_validation(chan_state.value, chan_ordering.value,
                                            remote.value, connection_hops.value,
                                            Version_from(value.version)))

\* From<ChannelEnd> for RawChannel
ChannelEnd_into(chan_end) ==
    RawChannel(State_as_i32(chan_end.state), Order_as_i32(chan_end.ordering),
               Counterparty_into(chan_end.remote),
               [i \in DOMAIN chan_end.connection_hops |->
                    to_string(chan_end.connection_hops[i])],
               to_string(chan_end.version))

\* ChannelEnd::verify_state_matches
verify_state_matches(chan_end, expected) ==
    IF chan_end.state # expected
    THEN Err([kind |-> "InvalidState", expected |-> expected, actual |-> chan_end.state])
    ELSE Ok

\* Counterparty::verify_empty_channel_id
verify_empty_channel_id(counterparty) ==
    IF counterparty.channel_id # None
    THEN Err([kind |-> "InvalidChannelId",
              expected |-> "counterparty channel id must be empty",
              actual |-> to_string(counterparty.channel_id)])
    ELSE Ok

\* channel::verify_connection_hops_length
verify_connection_hops_length(connection_hops, expected) ==
    IF Len(connection_hops) # expected
    THEN Err([kind |-> "InvalidConnectionHopsLength",
              expected |-> expected, actual |-> Len(connection_hops)])
    ELSE Ok

\* The raw packet of the wire format; a timeout height of 0-0 is "no
\* timeout".
RawPacket(sequence, source_port, source_channel, destination_port, destination_channel, data, timeout_height, timeout_timestamp) ==
    [type |-> "RawPacket", sequence |-> sequence,
     source_port |-> source_port, source_channel |-> source_channel,
     destination_port |-> destination_port,
     destination_channel |-> destination_channel,
     data |-> data, timeout_height |-> timeout_height,
     timeout_timestamp |-> timeout_timestamp]

\* TryFrom<RawPacket> for Packet
Packet_try_from(raw_pkt) ==
    LET height == Height_try_from(raw_pkt.timeout_height)
        packet(timeout_height) ==
            [seq_on_a |-> raw_pkt.sequence,
             port_id_on_a |-> raw_pkt.source_port,
             chan_id_on_a |-> raw_pkt.source_channel,
             port_id_on_b |-> raw_pkt.destination_port,
             chan_id_on_b |-> raw_pkt.destination_channel,
             data |-> raw_pkt.data,
             timeout_height_on_b |-> timeout_height,
             timeout_timestamp_on_b |-> raw_pkt.timeout_timestamp]
    IN  IF raw_pkt.timeout_height = RawHeight(0, 0) THEN OkValue(packet(Never))
        ELSE IF height.tag = "Err" THEN Err([kind |-> "InvalidTimeoutHeight"])
        ELSE OkValue(packet(At(height.value)))

\* From<Packet> for RawPacket
Packet_into(packet) ==
    RawPacket(packet.seq_on_a, packet.port_id_on_a, packet.chan_id_on_a,
              packet.port_id_on_b, packet.chan_id_on_b, packet.data,
              IF packet.timeout_height_on_b.kind = "Never" THEN RawHeight(0, 0)
              ELSE Height_into(packet.timeout_height_on_b.height),
              packet.timeout_timestamp_on_b)

(***************************************************************************)
(* ics04_channel/msgs/chan_open_init.rs                                    *)
(***************************************************************************)
RawMsgChannelOpenInit(port_id, channel, signer) ==
    [type |-> "RawMsgChannelOpenInit", port_id |-> port_id,
     channel |-> channel, signer |-> signer]

MsgChannelOpenInit(port_id_on_a, connection_hops_on_a, port_id_on_b, ordering, signer, version_proposal) ==
    [type |-> "MsgChannelOpenInit", port_id_on_a |-> port_id_on_a,
     connection_hops_on_a |-> connection_hops_on_a,
     port_id_on_b |-> port_id_on_b, ordering |-> ordering,
     signer |-> signer, version_proposal |-> version_proposal]

\* MsgChannelOpenInit::verify_connection_hops_length expecting two hops.
MsgChannelOpenInit_verify_connection_hops_length_two(msg) ==
    verify_connection_hops_length(msg.connection_hops_on_a, 2)

\* MsgChannelOpenInit::verify_connection_hops_length
MsgChannelOpenInit_verify_connection_hops_length(msg) ==
    verify_connection_hops_length(msg.connection_hops_on_a, 1)

\* The message TryFrom<RawMsgChannelOpenInit> returns once the channel end
\* passed its checks.
MsgChannelOpenInit_try_from_fields(raw_msg, chan_end_on_a) ==
    LET port_id_on_a == PortId_from_str(raw_msg.port_id)
    IN  IF port_id_on_a.tag = "Err"
        THEN Err([kind |-> "InvalidIdentifier", source |-> port_id_on_a.error])
        ELSE OkValue(MsgChannelOpenInit(port_id_on_a.value,
                                        chan_end_on_a.connection_hops,
                                        chan_end_on_a.remote.port_id,
                                        chan_end_on_a.ordering,
                                        Signer_from(raw_msg.signer),
                                        chan_end_on_a.version))

\* TryFrom<RawMsgChannelOpenInit> without the check of the counterparty
\* channel id.
MsgChannelOpenInit_try_from_any_counterparty(raw_msg) ==
    LET chan_end_on_a == ChannelEnd_try_from(raw_msg.channel)
    IN  IF raw_msg.channel = None THEN Err([kind |-> "MissingChannel"])
        ELSE IF chan_end_on_a.tag = "Err" THEN chan_end_on_a
        ELSE IF verify_state_matches(chan_end_on_a.value, "Init") # Ok
        THEN verify_state_matches(chan_end_on_a.value, "Init")
        ELSE MsgChannelOpenInit_try_from_fields(raw_msg, chan_end_on_a.value)

\* impl TryFrom<RawMsgChannelOpenInit> for MsgChannelOpenInit
MsgChannelOpenInit_try_from(raw_msg) ==
    LET chan_end_on_a == ChannelEnd_try_from(raw_msg.channel)
    IN  IF raw_msg.channel = None THEN Err([kind |-> "MissingChannel"])
        ELSE IF chan_end_on_a.tag = "Err" THEN chan_end_on_a
        ELSE IF verify_state_matches(chan_end_on_a.value, "Init") # Ok
        THEN verify_state_matches(chan_end_on_a.value, "Init")
        ELSE IF verify_empty_channel_id(chan_end_on_a.value.remote) # Ok
        THEN verify_empty_channel_id(chan_end_on_a.value.remote)
        ELSE MsgChannelOpenInit_try_from_fields(raw_msg, chan_end_on_a.value)

\* From<MsgChannelOpenInit> for RawMsgChannelOpenInit with the version of
\* the channel left empty.
RawMsgChannelOpenInit_from_empty_version(domain_msg) ==
    LET chan_end_on_a ==
            new_without_validation("Init", domain_msg.ordering,
                                   Counterparty(domain_msg.port_id_on_b, None),
                                   domain_msg.connection_hops_on_a,
                                   Version_empty)
    IN  RawMsgChannelOpenInit(to_string(domain_msg.port_id_on_a),
                              ChannelEnd_into(chan_end_on_a),
                              to_string(domain_msg.signer))

\* impl From<MsgChannelOpenInit> for RawMsgChannelOpenInit
RawMsgChannelOpenInit_from(domain_msg) ==
    LET chan_end_on_a ==
            new_without_validation("Init", domain_msg.ordering,
                                   Counterparty(domain_msg.port_id_on_b, None),
                                   domain_msg.connection_hops_on_a,
                                   domain_msg.version_proposal)
    IN  RawMsgChannelOpenInit(to_string(domain_msg.port_id_on_a),
                              ChannelEnd_into(chan_end_on_a),
                              to_string(domain_msg.signer))

(***************************************************************************)
(* ics04_channel/msgs/chan_open_try.rs                                     *)
(***************************************************************************)
RawMsgChannelOpenTry(port_id, previous_channel_id, channel, counterparty_version, proof_init, proof_height, signer) ==
    [type |-> "RawMsgChannelOpenTry", port_id |-> port_id,
     previous_channel_id |-> previous_channel_id, channel |-> channel,
     counterparty_version |-> counterparty_version,
     proof_init |-> proof_init, proof_height |-> proof_height,
     signer |-> signer]

MsgChannelOpenTry(port_id_on_b, connection_hops_on_b, port_id_on_a, chan_id_on_a, version_supported_on_a, proof_chan_end_on_a, proof_height_on_a, ordering, signer, version_proposal) ==
    [type |-> "MsgChannelOpenTry", port_id_on_b |-> port_id_on_b,
     connection_hops_on_b |-> connection_hops_on_b,
     port_id_on_a |-> port_id_on_a, chan_id_on_a |-> chan_id_on_a,
     version_supported_on_a |-> version_supported_on_a,
     proof_chan_end_on_a |-> proof_chan_end_on_a,
     proof_height_on_a |-> proof_height_on_a,
     ordering |-> ordering, signer |-> signer,
     version_proposal |-> version_proposal]

\* MsgChannelOpenTry::verify_connection_hops_length
MsgChannelOpenTry_verify_connection_hops_length(msg) ==
    verify_connection_hops_length(msg.connection_hops_on_b, 1)

\* The message TryFrom<RawMsgChannelOpenTry> builds once the channel end and
\* the previous channel id passed their checks: its fields in the order of
\* the source, the first that fails ending the conversion.
MsgChannelOpenTry_try_from_fields(raw_msg, chan_end_on_b) ==
    LET port_id_on_b == PortId_from_str(raw_msg.port_id)
        proof_chan_end_on_a == CommitmentProofBytes_try_from(raw_msg.proof_init)
        proof_height_on_a == proof_height_and_then(raw_msg.proof_height)
    IN  IF port_id_on_b.tag = "Err"
        THEN Err([kind |-> "InvalidIdentifier", source |-> port_id_on_b.error])
        ELSE IF chan_end_on_b.remote.channel_id = None
        THEN Err([kind |-> "MissingCounterparty"])
        ELSE IF proof_chan_end_on_a.tag = "Err" THEN Err([kind |-> "InvalidProof"])
        ELSE IF proof_height_on_a = None THEN Err([kind |-> "MissingHeight"])
        ELSE OkValue(MsgChannelOpenTry(port_id_on_b.value,
                                       chan_end_on_b.connection_hops,
                                       chan_end_on_b.remote.port_id,
                                       chan_end_on_b.remote.channel_id,
                                       Version_from(raw_msg.counterparty_version),
                                       proof_chan_end_on_a.value,
                                       proof_height_on_a,
                                       chan_end_on_b.ordering,
                                       Signer_from(raw_msg.signer),
                                       chan_end_on_b.version))

\* TryFrom<RawMsgChannelOpenTry> that does not look at previous_channel_id.
MsgChannelOpenTry_try_from_any_previous(raw_msg) ==
    LET chan_end_on_b == ChannelEnd_try_from(raw_msg.channel)
    IN  IF raw_msg.channel = None THEN Err([kind |-> "MissingChannel"])
        ELSE IF chan_end_on_b.tag = "Err" THEN chan_end_on_b
        ELSE IF verify_state_matches(chan_end_on_b.value, "TryOpen") # Ok
        THEN verify_state_matches(chan_end_on_b.value, "TryOpen")
        ELSE MsgChannelOpenTry_try_from_fields(raw_msg, chan_end_on_b.value)

\* TryFrom<RawMsgChannelOpenTry> that does not look at the state of the
\* channel.
MsgChannelOpenTry_try_from_any_state(raw_msg) ==
    LET chan_end_on_b == ChannelEnd_try_from(raw_msg.channel)
    IN  IF raw_msg.channel = None THEN Err([kind |-> "MissingChannel"])
        ELSE IF chan_end_on_b.tag = "Err" THEN chan_end_on_b
        ELSE IF raw_msg.previous_channel_id # ""
        THEN Err([kind |-> "InvalidChannelId",
                  expected |-> "previous channel id must be empty. It has been deprecated as crossing hellos are no longer supported",
                  actual |-> raw_msg.previous_channel_id])
        ELSE MsgChannelOpenTry_try_from_fields(raw_msg, chan_end_on_b.value)

\* impl TryFrom<RawMsgChannelOpenTry> for MsgChannelOpenTry
MsgChannelOpenTry_try_from(raw_msg) ==
    LET chan_end_on_b == ChannelEnd_try_from(raw_msg.channel)
    IN  IF raw_msg.channel = None THEN Err([kind |-> "MissingChannel"])
        ELSE IF chan_end_on_b.tag = "Err" THEN chan_end_on_b
        ELSE IF verify_state_matches(chan_end_on_b.value, "TryOpen") # Ok
        THEN verify_state_matches(chan_end_on_b.value, "TryOpen")
        ELSE IF raw_msg.previous_channel_id # ""
        THEN Err([kind |-> "InvalidChannelId",
                  expected |-> "previous channel id must be empty. It has been deprecated as crossing hellos are no longer supported",
                  actual |-> raw_msg.previous_channel_id])
        ELSE MsgChannelOpenTry_try_from_fields(raw_msg, chan_end_on_b.value)

\* impl From<MsgChannelOpenTry> for RawMsgChannelOpenTry
RawMsgChannelOpenTry_from(domain_msg) ==
    LET chan_end_on_b ==
            new_without_validation("TryOpen", domain_msg.ordering,
                                   Counterparty(domain_msg.port_id_on_a,
                                                domain_msg.chan_id_on_a),
                                   domain_msg.connection_hops_on_b,
                                   Version_empty)
    IN  RawMsgChannelOpenTry(to_string(domain_msg.port_id_on_b),
                             "",
                             ChannelEnd_into(chan_end_on_b),
                             to_string(domain_msg.version_supported_on_a),
                             CommitmentProofBytes_into(domain_msg.proof_chan_end_on_a),
                             Height_into(domain_msg.proof_height_on_a),
                             to_string(domain_msg.signer))

(***************************************************************************)
(* ics03_connection/msgs/conn_open_confirm.rs                              *)
(***************************************************************************)
RawMsgConnectionOpenConfirm(connection_id, proof_ack, proof_height, signer) ==
    [type |-> "RawMsgConnectionOpenConfirm", connection_id |-> connection_id,
     proof_ack |-> proof_ack, proof_height |-> proof_height, signer |-> signer]

MsgConnectionOpenConfirm(conn_id_on_b, proof_conn_end_on_a, proof_height_on_a, signer) ==
    [type |-> "MsgConnectionOpenConfirm", conn_id_on_b |-> conn_id_on_b,
     proof_conn_end_on_a |-> proof_conn_end_on_a,
     proof_height_on_a |-> proof_height_on_a, signer |-> signer]

\* TryFrom<RawMsgConnectionOpenConfirm> taking any proof height that is
\* present, a height of zero too.
MsgConnectionOpenConfirm_try_from_any_height(msg) ==
    LET conn_id_on_b == ConnectionId_from_str(msg.connection_id)
        proof_conn_end_on_a == CommitmentProofBytes_try_from(msg.proof_ack)
    IN  IF conn_id_on_b.tag = "Err"
        THEN Err([kind |-> "InvalidIdentifier", source |-> conn_id_on_b.error])
        ELSE IF proof_conn_end_on_a.tag = "Err" THEN Err([kind |-> "InvalidProof"])
        ELSE IF msg.proof_height = None THEN Err([kind |-> "MissingProofHeight"])
        ELSE OkValue(MsgConnectionOpenConfirm(
                         conn_id_on_b.value, proof_conn_end_on_a.value,
                         Height(msg.proof_height.revision_number,
                                msg.proof_height.revision_height),
                         Signer_from(msg.signer)))

\* impl TryFrom<RawMsgConnectionOpenConfirm> for MsgConnectionOpenConfirm
MsgConnectionOpenConfirm_try_from(msg) ==
    LET conn_id_on_b == ConnectionId_from_str(msg.connection_id)
        proof_conn_end_on_a == CommitmentProofBytes_try_from(msg.proof_ack)
        proof_height_on_a == proof_height_and_then(msg.proof_height)
    IN  IF conn_id_on_b.tag = "Err"
        THEN Err([kind |-> "InvalidIdentifier", source |-> conn_id_on_b.error])
        ELSE IF proof_conn_end_on_a.tag = "Err" THEN Err([kind |-> "InvalidProof"])
        ELSE IF proof_height_on_a = None THEN Err([kind |-> "MissingProofHeight"])
        ELSE OkValue(MsgConnectionOpenConfirm(conn_id_on_b.value,
                                              proof_conn_end_on_a.value,
                                              proof_height_on_a,
                                              Signer_from(msg.signer)))

\* impl From<MsgConnectionOpenConfirm> for RawMsgConnectionOpenConfirm
RawMsgConnectionOpenConfirm_from(msg) ==
    RawMsgConnectionOpenConfirm(to_string(msg.conn_id_on_b),
                                CommitmentProofBytes_into(msg.proof_conn_end_on_a),
                                Height_into(msg.proof_height_on_a),
                                to_string(msg.signer))

(***************************************************************************)
(* ics04_channel/msgs/acknowledgement.rs                                   *)
(***************************************************************************)
RawMsgAcknowledgement(packet, acknowledgement, proof_acked, proof_height, signer) ==
    [type |-> "RawMsgAcknowledgement", packet |-> packet,
     acknowledgement |-> acknowledgement, proof_acked |-> proof_acked,
     proof_height |-> proof_height, signer |-> signer]

MsgAcknowledgement(packet, acknowledgement, proof_acked_on_b, proof_height_on_b, signer) ==
    [type |-> "MsgAcknowledgement", packet |-> packet,
     acknowledgement |-> acknowledgement,
     proof_acked_on_b |-> proof_acked_on_b,
     proof_height_on_b |-> proof_height_on_b, signer |-> signer]

\* impl TryFrom<RawMsgAcknowledgement> for MsgAcknowledgement
MsgAcknowledgement_try_from(raw_msg) ==
    LET packet == Packet_try_from(raw_msg.packet)
        acknowledgement == Acknowledgement_try_from(raw_msg.acknowledgement)
        proof_acked_on_b == CommitmentProofBytes_try_from(raw_msg.proof_acked)
        proof_height_on_b == proof_height_and_then(raw_msg.proof_height)
    IN  IF raw_msg.packet = None THEN Err([kind |-> "MissingPacket"])
        ELSE IF packet.tag = "Err" THEN packet
        ELSE IF acknowledgement.tag = "Err" THEN acknowledgement
        ELSE IF proof_acked_on_b.tag = "Err" THEN Err([kind |-> "InvalidProof"])
        ELSE IF proof_height_on_b = None THEN Err([kind |-> "MissingHeight"])
        ELSE OkValue(MsgAcknowledgement(packet.value, acknowledgement.value,
                                        proof_acked_on_b.value, proof_height_on_b,
                                        Signer_from(raw_msg.signer)))

\* impl From<MsgAcknowledgement> for RawMsgAcknowledgement
RawMsgAcknowledgement_from(domain_msg) ==
    RawMsgAcknowledgement(Packet_into(domain_msg.packet),
                          Acknowledgement_into(domain_msg.acknowledgement),
                          CommitmentProofBytes_into(domain_msg.proof_acked_on_b),
                          Height_into(domain_msg.proof_height_on_b),
                          to_string(domain_msg.signer))

(***************************************************************************)
(* The messages the conversions are called with.  The raw messages are a   *)
(* well-formed message with up to two of its fields replaced, with and     *)
(* without a previous channel id and a version of the channel; the domain  *)
(* messages are built from valid parts, as their public fields allow.      *)
(***************************************************************************)
GoodPort == Repeat("a", 2)
OtherPort == <<"a", "a", "7">>
GoodChannel == Repeat("a", 8)
GoodConnection == Repeat("a", 10)

RawPortIds == {GoodPort, OtherPort, Repeat("a", 1), <<"a", "a", "/">>}
RawChannelIds == {<<>>, GoodChannel, Repeat("a", 7)}
RawConnectionIds == {GoodConnection, Repeat("a", 9), <<"a", "/">>}
RawHops == {Repeat(GoodConnection, n) : n \in 0..MaxHops} \cup {<<Repeat("a", 9)>>}
RawVersions == {"", " ", "ics20-1"}
RawSigners == {"", "cosmos1signer"}
RawProofs == {<<>>, <<1>>}
RawHeights == {RawHeight(n, h) : n \in 0..MaxRevision, h \in 0..MaxRevision}
RawStates == 0..5
RawOrders == 0..2
PreviousChannelIds == {"", "channel-3"}

\* A raw channel with one field replaced, or none.
VaryChannel(c) ==
    {c}
    \cup {[c EXCEPT !.state = x] : x \in RawStates}
    \cup {[c EXCEPT !.ordering = x] : x \in RawOrders}
    \cup {[c EXCEPT !.counterparty.port_id = x] : x \in RawPortIds}
    \cup {[c EXCEPT !.counterparty.channel_id = x] : x \in RawChannelIds}
    \cup {[c EXCEPT !.connection_hops = x] : x \in RawHops}

VaryChannelOf(r) ==
    IF r.channel = None THEN {} ELSE {[r EXCEPT !.channel = c] : c \in VaryChannel(r.channel)}

VaryInit(r) ==
    {r}
    \cup {[r EXCEPT !.port_id = x] : x \in RawPortIds}
    \cup {[r EXCEPT !.channel = None]}
    \cup VaryChannelOf(r)
    \cup {[r EXCEPT !.signer = x] : x \in RawSigners}

RawMsgsChannelOpenInit ==
    UNION {UNION {VaryInit(r) : r \in VaryInit(
               RawMsgChannelOpenInit(GoodPort,
                                     RawChannel(1, 1, RawCounterparty(OtherPort, <<>>),
                                                <<GoodConnection>>, version),
                                     "cosmos1signer"))} :
           version \in RawVersions}

VaryTry(r) ==
    {r}
    \cup {[r EXCEPT !.port_id = x] : x \in RawPortIds}
    \cup {[r EXCEPT !.channel = None]}
    \cup VaryChannelOf(r)
    \cup {[r EXCEPT !.counterparty_version = x] : x \in RawVersions}
    \cup {[r EXCEPT !.proof_init = x] : x \in RawProofs}
    \cup {[r EXCEPT !.proof_height = x] : x \in RawHeights \cup {None}}
    \cup {[r EXCEPT !.signer = x] : x \in RawSigners}

RawMsgsChannelOpenTry ==
    UNION {UNION {VaryTry(r) : r \in VaryTry(
               RawMsgChannelOpenTry(GoodPort, previous_channel_id,
                                    RawChannel(2, 1, RawCounterparty(OtherPort, GoodChannel),
                                               <<GoodConnection>>, version),
                                    "ics20-1", <<1>>, RawHeight(0, 1), "cosmos1signer"))} :
           previous_channel_id \in PreviousChannelIds, version \in RawVersions}

RawMsgsConnectionOpenConfirm ==
    {RawMsgConnectionOpenConfirm(connection_id, proof_ack, proof_height, signer) :
        connection_id \in RawConnectionIds, proof_ack \in RawProofs,
        proof_height \in RawHeights \cup {None}, signer \in RawSigners}

\* The packets of the acknowledgements: the first packet of the channel with
\* every timeout.
AckPackets ==
    {Packet(1, ChanA, PortB, ChanB, "d1", th, ts) :
        th \in TimeoutHeights, ts \in Timestamps}

RawMsgsAcknowledgement ==
    {RawMsgAcknowledgement(packet, acknowledgement, proof_acked, proof_height, signer) :
        packet \in {None, RawPacket(1, PortA, ChanA, PortB, ChanB, "d1", RawHeight(1, 0), 1)}
                       \cup {Packet_into(p) : p \in AckPackets},
        acknowledgement \in {<<>>, <<1>>}, proof_acked \in RawProofs,
        proof_height \in RawHeights \cup {None}, signer \in RawSigners}

PortIds == {[type |-> "PortId", str |-> s] : s \in {GoodPort, OtherPort}}
ConnectionHops ==
    {Repeat([type |-> "ConnectionId", str |-> GoodConnection], n) : n \in 0..MaxHops}
Orders == {"Unordered", "Ordered"}
Versions == {Version_from(s) : s \in RawVersions}
Signers == {Signer_from(s) : s \in RawSigners}
ProofHeights == {Height(n, h) : n \in 0..MaxRevision, h \in 1..MaxRevision}
Proof == [type |-> "CommitmentProofBytes", bytes |-> <<1>>]

MsgsChannelOpenInit ==
    {MsgChannelOpenInit(port_id_on_a, connection_hops_on_a,
                        [type |-> "PortId", str |-> OtherPort], ordering, signer,
                        version_proposal) :
        port_id_on_a \in PortIds, connection_hops_on_a \in ConnectionHops,
        ordering \in Orders, signer \in Signers, version_proposal \in Versions}

MsgsChannelOpenTry ==
    {MsgChannelOpenTry([type |-> "PortId", str |-> GoodPort], connection_hops_on_b,
                       [type |-> "PortId", str |-> OtherPort],
                       [type |-> "ChannelId", str |-> GoodChannel],
                       version_supported_on_a, Proof, proof_height_on_a, ordering,
                       Signer_from("cosmos1signer"), version_proposal) :
        connection_hops_on_b \in ConnectionHops, version_supported_on_a \in Versions,
        proof_height_on_a \in ProofHeights, ordering \in Orders,
        version_proposal \in Versions}

MsgsConnectionOpenConfirm ==
    {MsgConnectionOpenConfirm([type |-> "ConnectionId", str |-> GoodConnection],
                              Proof, proof_height_on_a, signer) :
        proof_height_on_a \in ProofHeights, signer \in Signers}

MsgsAcknowledgement ==
    {MsgAcknowledgement(packet, [type |-> "Acknowledgement", bytes |-> <<1>>],
                        Proof, proof_height_on_b, signer) :
        packet \in AckPackets, proof_height_on_b \in ProofHeights, signer \in Signers}

InitMsgs ==
    /\ n0 = 1
    /\ ctx_a = Host("Open", ChanB, "Active", Height(0, 2), n0)
    /\ \E value \in RawMsgsChannelOpenInit \cup RawMsgsChannelOpenTry
                    \cup RawMsgsConnectionOpenConfirm \cup RawMsgsAcknowledgement
                    \cup MsgsChannelOpenInit \cup MsgsChannelOpenTry
                    \cup MsgsConnectionOpenConfirm \cup MsgsAcknowledgement :
           last = [op |-> "input", value |-> value]
    /\ pending = {}

\* The message at hand: the one given, or the one the last conversion
\* returned.
Held(call) ==
    IF call.op = "input" THEN call.value
    ELSE IF call.result.tag = "Ok" /\ "value" \in DOMAIN call.result THEN call.result.value
    ELSE None

\* A call on the message at hand; origin is the message that one was
\* converted from, if any.
Convert(op, result) ==
    /\ last' = [op |-> op, arg |-> Held(last),
                origin |-> IF last.op = "input" THEN None ELSE last.arg,
                result |-> result]
    /\ UNCHANGED <<ctx_a, n0, pending>>

\* MsgChannelOpenInit::try_from(raw_msg)
ChannelOpenInitTryFrom ==
    /\ Held(last).type = "RawMsgChannelOpenInit"
    /\ Convert("MsgChannelOpenInit::try_from", MsgChannelOpenInit_try_from(Held(last)))

\* RawMsgChannelOpenInit::from(domain_msg)
ChannelOpenInitFrom ==
    /\ Held(last).type = "MsgChannelOpenInit"
    /\ Convert("RawMsgChannelOpenInit::from",
               OkValue(RawMsgChannelOpenInit_from(Held(last))))

\* msg.verify_connection_hops_length() of a MsgChannelOpenInit
ChannelOpenInitVerifyConnectionHopsLength ==
    /\ Held(last).type = "MsgChannelOpenInit"
    /\ Convert("MsgChannelOpenInit::verify_connection_hops_length",
               MsgChannelOpenInit_verify_connection_hops_length(Held(last)))

\* MsgChannelOpenTry::try_from(raw_msg)
ChannelOpenTryTryFrom ==
    /\ Held(last).type = "RawMsgChannelOpenTry"
    /\ Convert("MsgChannelOpenTry::try_from", MsgChannelOpenTry_try_from(Held(last)))

\* RawMsgChannelOpenTry::from(domain_msg)
ChannelOpenTryFrom ==
    /\ Held(last).type = "MsgChannelOpenTry"
    /\ Convert("RawMsgChannelOpenTry::from",
               OkValue(RawMsgChannelOpenTry_from(Held(last))))

\* msg.verify_connection_hops_length() of a MsgChannelOpenTry
ChannelOpenTryVerifyConnectionHopsLength ==
    /\ Held(last).type = "MsgChannelOpenTry"
    /\ Convert("MsgChannelOpenTry::verify_connection_hops_length",
               MsgChannelOpenTry_verify_connection_hops_length(Held(last)))

\* MsgConnectionOpenConfirm::try_from(msg)
ConnectionOpenConfirmTryFrom ==
    /\ Held(last).type = "RawMsgConnectionOpenConfirm"
    /\ Convert("MsgConnectionOpenConfirm::try_from",
               MsgConnectionOpenConfirm_try_from(Held(last)))

\* RawMsgConnectionOpenConfirm::from(msg)
ConnectionOpenConfirmFrom ==
    /\ Held(last).type = "MsgConnectionOpenConfirm"
    /\ Convert("RawMsgConnectionOpenConfirm::from",
               OkValue(RawMsgConnectionOpenConfirm_from(Held(last))))

\* MsgAcknowledgement::try_from(raw_msg)
AcknowledgementTryFrom ==
    /\ Held(last).type = "RawMsgAcknowledgement"
    /\ Convert("MsgAcknowledgement::try_from", MsgAcknowledgement_try_from(Held(last)))

\* RawMsgAcknowledgement::from(domain_msg)
AcknowledgementFrom ==
    /\ Held(last).type = "MsgAcknowledgement"
    /\ Convert("RawMsgAcknowledgement::from",
               OkValue(RawMsgAcknowledgement_from(Held(last))))

NextMsgs ==
    \/ ChannelOpenInitTryFrom
    \/ ChannelOpenInitFrom
    \/ ChannelOpenInitVerifyConnectionHopsLength
    \/ ChannelOpenTryTryFrom
    \/ ChannelOpenTryFrom
    \/ ChannelOpenTryVerifyConnectionHopsLength
    \/ ConnectionOpenConfirmTryFrom
    \/ ConnectionOpenConfirmFrom
    \/ AcknowledgementTryFrom
    \/ AcknowledgementFrom

SpecMsgs == InitMsgs /\ [][NextMsgs]_vars

(***************************************************************************)
(* recv_packet, after section 4.7 of the specification: the same           *)
(* validate-then-execute shape as send_packet, on the host of the          *)
(* receiving chain.  Validation verifies the proof of the packet           *)
(* commitment and checks the ordering; execution counts the packet as      *)
(* received (the next-receive Sequence of an Ordered channel, the receipt  *)
(* of an Unordered one), stores the acknowledgement commitment and emits   *)
(* ReceivePacket.  The proof verification is a capability of the client:   *)
(* a message carries whether its proof verifies.                           *)
(***************************************************************************)
SeqRecvPath(port_id, chan_id) == <<port_id, chan_id>>
ReceiptPath(port_id, chan_id, seq) == <<port_id, chan_id, seq>>
AckPath(port_id, chan_id, seq) == <<port_id, chan_id, seq>>

MsgRecvPacket(packet, proof_verifies) == [packet |-> packet, proof_verifies |-> proof_verifies]

\* The receiving host: one open channel end of the given ordering.
RecvHost(ordering, next_seq_recv) ==
    [channel_ends |-> (ChannelEndPath(PortB, ChanB) :>
                           new_without_validation("Open", ordering,
                                                  Counterparty(PortA, ChanA),
                                                  <<ConnA>>, "ics20-1")),
     next_sequence_recv |-> (SeqRecvPath(PortB, ChanB) :> next_seq_recv),
     packet_receipts |-> {},
     packet_acknowledgements |-> <<>>,
     events |-> <<>>]

\* The ordering check of an Ordered channel refusing only the sequences
\* below the next one to receive.
recv_packet_validate_ordering_at_least(ctx, packet) ==
    LET chan_end_on_b == ctx.channel_ends[ChannelEndPath(packet.port_id_on_b, packet.chan_id_on_b)]
        next_seq_recv == ctx.next_sequence_recv[SeqRecvPath(packet.port_id_on_b, packet.chan_id_on_b)]
    IN  IF chan_end_on_b.ordering = "Ordered"
        THEN IF packet.seq_on_a < next_seq_recv
             THEN Err([kind |-> "InvalidPacketSequence",
                       given_sequence |-> packet.seq_on_a,
                       next_sequence |-> next_seq_recv])
             ELSE Ok
        ELSE IF ReceiptPath(packet.port_id_on_b, packet.chan_id_on_b, packet.seq_on_a)
                    \in ctx.packet_receipts
        THEN Err([kind |-> "PacketAlreadyReceived", sequence |-> packet.seq_on_a])
        ELSE Ok

\* The ordering check: an Ordered channel takes the exact next sequence to
\* receive, an Unordered channel a sequence not yet recorded as received.
recv_packet_validate_ordering(ctx, packet) ==
    LET chan_end_on_b == ctx.channel_ends[ChannelEndPath(packet.port_id_on_b, packet.chan_id_on_b)]
        next_seq_recv == ctx.next_sequence_recv[SeqRecvPath(packet.port_id_on_b, packet.chan_id_on_b)]
    IN  IF chan_end_on_b.ordering = "Ordered"
        THEN IF packet.seq_on_a # next_seq_recv
             THEN Err([kind |-> "InvalidPacketSequence",
                       given_sequence |-> packet.seq_on_a,
                       next_sequence |-> next_seq_recv])
             ELSE Ok
        ELSE IF ReceiptPath(packet.port_id_on_b, packet.chan_id_on_b, packet.seq_on_a)
                    \in ctx.packet_receipts
        THEN Err([kind |-> "PacketAlreadyReceived", sequence |-> packet.seq_on_a])
        ELSE Ok

recv_packet_validate(ctx, msg) ==
    IF ChannelEndPath(msg.packet.port_id_on_b, msg.packet.chan_id_on_b)
           \notin DOMAIN ctx.channel_ends
    THEN Err([kind |-> "ChannelNotFound"])
    ELSE IF ~msg.proof_verifies THEN Err([kind |-> "VerificationFailure"])
    ELSE recv_packet_validate_ordering(ctx, msg.packet)

recv_packet_execute(ctx, msg) ==
    LET packet == msg.packet
        seq_recv_path == SeqRecvPath(packet.port_id_on_b, packet.chan_id_on_b)
        chan_end_on_b == ctx.channel_ends[ChannelEndPath(packet.port_id_on_b, packet.chan_id_on_b)]
        counted ==
            IF chan_end_on_b.ordering = "Ordered"
            THEN [ctx EXCEPT !.next_sequence_recv[seq_recv_path] = increment(@)]
            ELSE [ctx EXCEPT !.packet_receipts =
                      @ \cup {ReceiptPath(packet.port_id_on_b, packet.chan_id_on_b,
                                          packet.seq_on_a)}]
        ack_path == AckPath(packet.port_id_on_b, packet.chan_id_on_b, packet.seq_on_a)
    IN  [ctx |-> [counted EXCEPT
                      !.packet_acknowledgements =
                          [p \in DOMAIN @ \cup {ack_path} |->
                              IF p = ack_path THEN <<"ack", packet.data>> ELSE @[p]],
                      !.events = Append(@, [kind |-> "ReceivePacket", packet |-> packet])],
         result |-> Ok]

recv_packet(ctx, msg) ==
    LET validated == recv_packet_validate(ctx, msg)
    IN  IF validated # Ok
        THEN [ctx |-> ctx, result |-> validated]
        ELSE recv_packet_execute(ctx, msg)

InitRecv ==
    /\ n0 \in {1, SeqMax}
    /\ \E ordering \in {"Ordered", "Unordered"} : ctx_a = RecvHost(ordering, n0)
    /\ last = NoCall
    /\ pending = {}

\* A call of recv_packet(&mut ctx_b, msg), recorded with what the host held
\* before it.
RecvPacket(msg) ==
    /\ Len(ctx_a.events) < MaxRecvs
    /\ LET r == recv_packet(ctx_a, msg)
       IN  /\ ctx_a' = r.ctx
           /\ last' = [op |-> "recv_packet", msg |-> msg, before |-> ctx_a,
                       result |-> r.result]
    /\ UNCHANGED <<n0, pending>>

PacketsToRecv ==
    {Packet(s, ChanA, PortB, cb, "d1", Never, 1) : s \in 1..SeqMax, cb \in {ChanB, ChanOther}}

NextRecv ==
    \E packet \in PacketsToRecv, proof_verifies \in BOOLEAN :
        RecvPacket(MsgRecvPacket(packet, proof_verifies))

SpecRecv == InitRecv /\ [][NextRecv]_vars

(***************************************************************************)
(* The connection and channel handshakes (spec.md 3, 4.4, 4.5, 4.7)        *)
(*                                                                         *)
(* The handlers are not among the sources; they are written from the      *)
(* specification: every step validates against the persisted state and,   *)
(* only when validation accepts, executes: it persists the new end and     *)
(* emits an event.  The first message on a side (Init or Try) creates the  *)
(* end under a fresh identifier; Ack opens an Init end, Confirm opens a    *)
(* TryOpen end, and a timeout on an Ordered channel closes it.             *)
(***************************************************************************)
ConnectionEnd(state, client_id) == [state |-> state, client_id |-> client_id]

HandshakeChannelEnd(state, ordering, connection_id) ==
    [state |-> state, ordering |-> ordering, connection_id |-> connection_id]

\* The host of the handshakes: one client, the connection store and the
\* channel store, each keyed by the identifier the host generated (the
\* k-th end created has identifier k - 1).
HandshakeHost(status) ==
    [client_states |-> (ClientA :> [status |-> status, latest_height |-> Height(0, 2)]),
     connection_ends |-> <<>>,
     channel_ends |-> <<>>]

\* A proof handed to a step: the height it was taken at and whether it
\* verifies against the expected counterparty end.
HandshakeProof(proof_height, proof_verifies) ==
    [proof_height |-> proof_height, proof_verifies |-> proof_verifies]

\* The supplied client exists and is Active.
validate_client_active(ctx, client_id) ==
    IF client_id \notin DOMAIN ctx.client_states
    THEN Err([kind |-> "ClientNotFound"])
    ELSE IF ctx.client_states[client_id].status # "Active"
    THEN Err([kind |-> "ClientNotActive", status |-> ctx.client_states[client_id].status])
    ELSE Ok

\* The proof's height is not in the future of the client's latest height
\* and the proof verifies.
validate_proof(ctx, client_id, proof) ==
    LET client_ok == validate_client_active(ctx, client_id)
    IN  IF client_ok.tag = "Err" THEN client_ok
        ELSE IF HeightGt(proof.proof_height, ctx.client_states[client_id].latest_height)
        THEN Err([kind |-> "InvalidConsensusHeight"])
        ELSE IF ~proof.proof_verifies THEN Err([kind |-> "VerificationFailure"])
        ELSE Ok

\* The persisted connection end is in the state the step starts from.
conn_validate_state(ctx, conn_id, expected) ==
    IF conn_id + 1 \notin DOMAIN ctx.connection_ends
    THEN Err([kind |-> "ConnectionNotFound"])
    ELSE IF ctx.connection_ends[conn_id + 1].state # expected
    THEN Err([kind |-> "InvalidState", expected |-> expected,
              actual |-> ctx.connection_ends[conn_id + 1].state])
    ELSE Ok

\* The channel end exists, in whatever state.
chan_validate_state_any(ctx, chan_id, expected) ==
    IF chan_id + 1 \notin DOMAIN ctx.channel_ends
    THEN Err([kind |-> "ChannelNotFound"])
    ELSE Ok

\* The persisted channel end is in the state the step starts from.
chan_validate_state(ctx, chan_id, expected) ==
    IF chan_id + 1 \notin DOMAIN ctx.channel_ends
    THEN Err([kind |-> "ChannelNotFound"])
    ELSE IF ctx.channel_ends[chan_id + 1].state # expected
    THEN Err([kind |-> "InvalidState", expected |-> expected,
              actual |-> ctx.channel_ends[chan_id + 1].state])
    ELSE Ok

\* The channel handshake is gated on an Open connection.
validate_connection_open(ctx, conn_id) == conn_validate_state(ctx, conn_id, "Open")

\* The validation pass of a handshake step.
handshake_validate(ctx, msg) ==
    CASE msg.type = "MsgConnectionOpenInit" -> validate_client_active(ctx, msg.client_id)
      [] msg.type = "MsgConnectionOpenTry" -> validate_proof(ctx, msg.client_id, msg.proof)
      [] msg.type \in {"MsgConnectionOpenAck", "MsgConnectionOpenConfirm"} ->
            LET state_ok == conn_validate_state(ctx, msg.conn_id,
                                IF msg.type = "MsgConnectionOpenAck" THEN "Init" ELSE "TryOpen")
            IN  IF state_ok.tag = "Err" THEN state_ok
                ELSE validate_proof(ctx, ctx.connection_ends[msg.conn_id + 1].client_id, msg.proof)
      [] msg.type = "MsgChannelOpenInit" -> validate_connection_open(ctx, msg.connection_id)
      [] msg.type = "MsgChannelOpenTry" ->
            LET conn_ok == validate_connection_open(ctx, msg.connection_id)
            IN  IF conn_ok.tag = "Err" THEN conn_ok
                ELSE validate_proof(ctx, ctx.connection_ends[msg.connection_id + 1].client_id,
                                    msg.proof)
      [] OTHER ->
            LET state_ok == chan_validate_state(ctx, msg.chan_id,
                                CASE msg.type = "MsgChannelOpenAck" -> "Init"
                                  [] msg.type = "MsgChannelOpenConfirm" -> "TryOpen"
                                  [] OTHER -> "Open")
                conn_id == ctx.channel_ends[msg.chan_id + 1].connection_id
                conn_ok == validate_connection_open(ctx, conn_id)
            IN  IF state_ok.tag = "Err" THEN state_ok
                ELSE IF conn_ok.tag = "Err" THEN conn_ok
                ELSE validate_proof(ctx, ctx.connection_ends[conn_id + 1].client_id, msg.proof)

\* The execution pass of a handshake step: the new host state and the
\* events of the step.
handshake_execute(ctx, msg) ==
    CASE msg.type = "MsgConnectionOpenInit" ->
            [ctx |-> [ctx EXCEPT !.connection_ends =
                          Append(@, ConnectionEnd("Init", msg.client_id))],
             events |-> <<[kind |-> "OpenInitConnection",
                           conn_id |-> Len(ctx.connection_ends)]>>]
      [] msg.type = "MsgConnectionOpenTry" ->
            [ctx |-> [ctx EXCEPT !.connection_ends =
                          Append(@, ConnectionEnd("TryOpen", msg.client_id))],
             events |-> <<[kind |-> "OpenTryConnection",
                           conn_id |-> Len(ctx.connection_ends)]>>]
      [] msg.type = "MsgConnectionOpenAck" ->
            [ctx |-> [ctx EXCEPT !.connection_ends[msg.conn_id + 1].state = "Open"],
             events |-> <<[kind |-> "OpenAckConnection", conn_id |-> msg.conn_id]>>]
      [] msg.type = "MsgConnectionOpenConfirm" ->
            [ctx |-> [ctx EXCEPT !.connection_ends[msg.conn_id + 1].state = "Open"],
             events |-> <<[kind |-> "OpenConfirmConnection", conn_id |-> msg.conn_id]>>]
      [] msg.type = "MsgChannelOpenInit" ->
            [ctx |-> [ctx EXCEPT !.channel_ends =
                          Append(@, HandshakeChannelEnd("Init", msg.ordering,
                                                        msg.connection_id))],
             events |-> <<[kind |-> "OpenInitChannel", chan_id |-> Len(ctx.channel_ends)]>>]
      [] msg.type = "MsgChannelOpenTry" ->
            [ctx |-> [ctx EXCEPT !.channel_ends =
                          Append(@, HandshakeChannelEnd("TryOpen", msg.ordering,
                                                        msg.connection_id))],
             events |-> <<[kind |-> "OpenTryChannel", chan_id |-> Len(ctx.channel_ends)]>>]
      [] msg.type = "MsgChannelOpenAck" ->
            [ctx |-> [ctx EXCEPT !.channel_ends[msg.chan_id + 1].state = "Open"],
             events |-> <<[kind |-> "OpenAckChannel", chan_id |-> msg.chan_id]>>]
      [] msg.type = "MsgChannelOpenConfirm" ->
            [ctx |-> [ctx EXCEPT !.channel_ends[msg.chan_id + 1].state = "Open"],
             events |-> <<[kind |-> "OpenConfirmChannel", chan_id |-> msg.chan_id]>>]
      [] OTHER ->
            [ctx |-> IF ctx.channel_ends[msg.chan_id + 1].ordering = "Ordered"
                     THEN [ctx EXCEPT !.channel_ends[msg.chan_id + 1].state = "Closed"]
                     ELSE ctx,
             events |-> <<[kind |-> "TimeoutPacket", chan_id |-> msg.chan_id]>>]

\* A handshake entry point: validation, then execution only if it accepted.
handshake_dispatch(ctx, msg) ==
    LET validated == handshake_validate(ctx, msg)
    IN  IF validated.tag = "Err"
        THEN [ctx |-> ctx, result |-> validated, events |-> <<>>]
        ELSE LET executed == handshake_execute(ctx, msg)
             IN  [ctx |-> executed.ctx, result |-> Ok, events |-> executed.events]

\* The inputs of the handshake steps.
HandshakeProofs ==
    {HandshakeProof(h, v) : h \in {Height(0, 1), Height(0, 3)}, v \in BOOLEAN}

ClientIds == {ClientA, "07-tendermint-9"}
ConnIds == 0 .. MaxConnections - 1
ChanIds == 0 .. MaxChannels - 1

InitHandshake ==
    /\ n0 = 1
    /\ \E status \in {"Active", "Frozen"} : ctx_a = HandshakeHost(status)
    /\ last = NoCall
    /\ pending = {}

Handshake(msg) ==
    LET r == handshake_dispatch(ctx_a, msg)
    IN  /\ ctx_a' = r.ctx
        /\ last' = [op |-> "handshake", msg |-> msg, result |-> r.result,
                    events |-> r.events]
        /\ UNCHANGED <<n0, pending>>

ConnOpenInit ==
    /\ Len(ctx_a.connection_ends) < MaxConnections
    /\ \E client_id \in ClientIds :
           Handshake([type |-> "MsgConnectionOpenInit", client_id |-> client_id])

ConnOpenTry ==
    /\ Len(ctx_a.connection_ends) < MaxConnections
    /\ \E client_id \in ClientIds, proof \in HandshakeProofs :
           Handshake([type |-> "MsgConnectionOpenTry", client_id |-> client_id,
                      proof |-> proof])

ConnOpenAck ==
    /\ \E conn_id \in ConnIds, proof \in HandshakeProofs :
           Handshake([type |-> "MsgConnectionOpenAck", conn_id |-> conn_id, proof |-> proof])

ConnOpenConfirm ==
    /\ \E conn_id \in ConnIds, proof \in HandshakeProofs :
           Handshake([type |-> "MsgConnectionOpenConfirm", conn_id |-> conn_id, proof |-> proof])

ChanOpenInit ==
    /\ Len(ctx_a.channel_ends) < MaxChannels
    /\ \E connection_id \in ConnIds, ordering \in {"Ordered", "Unordered"} :
           Handshake([type |-> "MsgChannelOpenInit", connection_id |-> connection_id,
                      ordering |-> ordering])

ChanOpenTry ==
    /\ Len(ctx_a.channel_ends) < MaxChannels
    /\ \E connection_id \in ConnIds, ordering \in {"Ordered", "Unordered"},
          proof \in HandshakeProofs :
           Handshake([type |-> "MsgChannelOpenTry", connection_id |-> connection_id,
                      ordering |-> ordering, proof |-> proof])

ChanOpenAck ==
    /\ \E chan_id \in ChanIds, proof \in HandshakeProofs :
           Handshake([type |-> "MsgChannelOpenAck", chan_id |-> chan_id, proof |-> proof])

ChanOpenConfirm ==
    /\ \E chan_id \in ChanIds, proof \in HandshakeProofs :
           Handshake([type |-> "MsgChannelOpenConfirm", chan_id |-> chan_id, proof |-> proof])

TimeoutPacket ==
    /\ \E chan_id \in ChanIds, proof \in HandshakeProofs :
           Handshake([type |-> "MsgTimeout", chan_id |-> chan_id, proof |-> proof])

NextHandshake ==
    \/ ConnOpenInit
    \/ ConnOpenTry
    \/ ConnOpenAck
    \/ ConnOpenConfirm
    \/ ChanOpenInit
    \/ ChanOpenTry
    \/ ChanOpenAck
    \/ ChanOpenConfirm
    \/ TimeoutPacket

SpecHandshake == InitHandshake /\ [][NextHandshake]_vars

(***************************************************************************)
(* Vocabulary of the properties                                            *)
(***************************************************************************)
IsErr(result, kind) == result.tag = "Err" /\ result.error.kind = kind

\* The host state of the sending channel, read directly.
ChanEndOf(ctx) == ctx.channel_ends[ChannelEndPath(PortA, ChanA)]
ClientOf(ctx) == ctx.client_states[ClientA]
NextSeqSend(ctx) == ctx.next_sequence_send[SeqSendPath(PortA, ChanA)]
HasCommitment(ctx, seq) == CommitmentPath(PortA, ChanA, seq) \in DOMAIN ctx.packet_commitments
CommitmentAt(ctx, seq) == ctx.packet_commitments[CommitmentPath(PortA, ChanA, seq)]
SendPacketEvents(ctx) == SelectSeq(ctx.events, LAMBDA e : e.type = "SendPacket")

\* The conditions of send_packet on a packet, each stated on the host state.
OnChannel(packet) == packet.chan_id_on_a = ChanA
NotClosed(ctx) == ChanEndOf(ctx).state # "Closed"
CounterpartyMatches(ctx, packet) ==
    /\ ChanEndOf(ctx).remote.port_id = packet.port_id_on_b
    /\ ChanEndOf(ctx).remote.channel_id = packet.chan_id_on_b
ClientActive(ctx) == ClientOf(ctx).status = "Active"
HeightNotExpired(ctx, packet) ==
    \/ packet.timeout_height_on_b = Never
    \/ HeightGt(packet.timeout_height_on_b.height, ClientOf(ctx).latest_height)
TimestampNotExpired(ctx, packet) ==
    \/ packet.timeout_timestamp_on_b = NoTimestamp
    \/ packet.timeout_timestamp_on_b >=
           ctx.consensus_states[<<ClientA, ClientOf(ctx).latest_height>>].timestamp
SequenceMatches(ctx, packet) == packet.seq_on_a = NextSeqSend(ctx)

\* Every check of send_packet but the one on the sequence.
OtherChecksPass(ctx, packet) ==
    /\ OnChannel(packet)
    /\ NotClosed(ctx)
    /\ CounterpartyMatches(ctx, packet)
    /\ ClientActive(ctx)
    /\ HeightNotExpired(ctx, packet)
    /\ TimestampNotExpired(ctx, packet)

InvalidPacketSequence(given, next) ==
    Err([kind |-> "InvalidPacketSequence", given_sequence |-> given, next_sequence |-> next])

(***************************************************************************)
(* C1: a packet that passes every other check of send_packet is accepted   *)
(* if and only if its sequence equals the channel's next_sequence_send;    *)
(* otherwise, smaller or larger, the call fails with                       *)
(* InvalidPacketSequence{given_sequence, next_sequence}.                   *)
(***************************************************************************)
C1_SequenceExact ==
    \A packet \in Packets :
        OtherChecksPass(ctx_a, packet) =>
            LET r == send_packet(ctx_a, packet).result
            IN  /\ r = Ok <=> packet.seq_on_a = NextSeqSend(ctx_a)
                /\ packet.seq_on_a # NextSeqSend(ctx_a) =>
                       r = InvalidPacketSequence(packet.seq_on_a, NextSeqSend(ctx_a))

\* A send was accepted, and the next call, with a larger sequence than the
\* one expected, was refused.
C1_Witness ==
    /\ last.op = "send_packet"
    /\ IsErr(last.result, "InvalidPacketSequence")
    /\ last.result.error.given_sequence > last.result.error.next_sequence
    /\ last.result.error.next_sequence = NextSeqSend(ctx_a)
    /\ Len(ctx_a.events) > 0
SentSequences(ctx) ==
    [i \in 1..Len(SendPacketEvents(ctx)) |-> SendPacketEvents(ctx)[i].packet.seq_on_a]

\* The call just made was a send_packet that succeeded.
JustSent == last.op = "send_packet" /\ last.result = Ok

\* The sequence of the packet the last successful send_packet sent.
LastSent(ctx) == SentSequences(ctx)[Len(SentSequences(ctx))]

\* A second send_packet of sequence s is refused, with
\* InvalidPacketSequence{s, s + 1} when the packet passes the other checks.
ReplayRefused(ctx, s) ==
    \A packet \in Packets :
        (OnChannel(packet) /\ packet.seq_on_a = s) =>
            /\ send_packet(ctx, packet).result # Ok
            /\ OtherChecksPass(ctx, packet) =>
                   send_packet(ctx, packet).result = InvalidPacketSequence(s, s + 1)

NoGaps(ctx) ==
    \A s \in 0..SeqMax :
        /\ (n0 <= s /\ s < NextSeqSend(ctx)) => HasCommitment(ctx, s)
        /\ s >= NextSeqSend(ctx) => ~HasCommitment(ctx, s)

ChannelChecksPass(ctx, packet) ==
    /\ OnChannel(packet)
    /\ NotClosed(ctx)
    /\ CounterpartyMatches(ctx, packet)

(***************************************************************************)
(* C5: the timeout height must be strictly greater than the latest height  *)
(* of the counterparty client.  When the earlier checks pass and           *)
(* timeout_height_on_b <= latest_height, equality included, send_packet    *)
(* fails with LowPacketHeight{chain_height = latest_height,                *)
(* timeout_height = timeout_height_on_b}.                                  *)
(***************************************************************************)
C5_LowPacketHeight ==
    \A packet \in Packets :
        ( /\ ChannelChecksPass(ctx_a, packet)
          /\ ClientActive(ctx_a)
          /\ packet.timeout_height_on_b.kind = "At"
          /\ HeightLe(packet.timeout_height_on_b.height, ClientOf(ctx_a).latest_height) )
        => send_packet(ctx_a, packet).result =
               Err([kind |-> "LowPacketHeight",
                    chain_height |-> ClientOf(ctx_a).latest_height,
                    timeout_height |-> packet.timeout_height_on_b])

\* A call was refused for a timeout height equal to the latest height.
C5_Witness ==
    /\ last.op = "send_packet"
    /\ IsErr(last.result, "LowPacketHeight")
    /\ last.result.error.timeout_height = At(last.result.error.chain_height)
    /\ last.result.error.chain_height = ClientOf(ctx_a).latest_height

\* The errors send_packet_validate returns.
ValidationErrors ==
    {"ChannelNotFound", "ChannelClosed", "InvalidCounterparty", "ConnectionNotFound",
     "ClientStateNotFound", "ClientNotActive", "LowPacketHeight",
     "ConsensusStateNotFound", "LowPacketTimestamp", "MissingNextSendSeq",
     "InvalidPacketSequence"}

(***************************************************************************)
(* C6: whenever send_packet returns a validation error the host state is   *)
(* as before the call: next_sequence_send, the commitments, the events     *)
(* and the log (send_packet_execute was not run).                          *)
(***************************************************************************)
C6_ErrorNoEffect ==
    [][(last'.op = "send_packet" /\ last'.result # Ok) =>
          /\ last'.result.error.kind \in ValidationErrors
          /\ ctx_a' = ctx_a]_vars

\* A call failed validation after an earlier send had stored its effects.
C6_Witness ==
    /\ last.op = "send_packet"
    /\ IsErr(last.result, "LowPacketTimestamp")
    /\ Len(ctx_a.events) = 2
    /\ NextSeqSend(ctx_a) = n0 + 1

(***************************************************************************)
(* C7: send_packet_validate is a dry run.  It leaves the host state as it  *)
(* is whatever it returns, and it returns success exactly when send_packet *)
(* on the same state and packet passes validation and runs the execution;  *)
(* when it returns an error, send_packet returns that error.               *)
(***************************************************************************)
C7_DryRun ==
    /\ [][last'.op = "send_packet_validate" => ctx_a' = ctx_a]_vars
    /\ [](\A packet \in Packets :
             LET validated == send_packet_validate(ctx_a, packet)
                 sent == send_packet(ctx_a, packet)
             IN  /\ validated = Ok =>
                        /\ sent = send_packet_execute(ctx_a, packet)
                        /\ sent.ctx # ctx_a
                 /\ validated # Ok =>
                        sent = [ctx |-> ctx_a, result |-> validated])

\* A dry run failed on a state that an earlier send had changed.
C7_Witness ==
    /\ last.op = "send_packet_validate"
    /\ IsErr(last.result, "InvalidPacketSequence")
    /\ Len(ctx_a.events) = 2

\* The commitment of every packet sent is the one stored at its sequence.
NoOverwrite(ctx) ==
    \A i \in DOMAIN SendPacketEvents(ctx) :
        LET packet == SendPacketEvents(ctx)[i].packet
        IN  /\ HasCommitment(ctx, packet.seq_on_a)
            /\ CommitmentAt(ctx, packet.seq_on_a) =
                   compute_packet_commitment(packet.data,
                                             packet.timeout_height_on_b,
                                             packet.timeout_timestamp_on_b)

\* No sequence was sent twice.
NoDoubleSend(ctx) ==
    \A i, j \in DOMAIN SentSequences(ctx) :
        i # j => SentSequences(ctx)[i] # SentSequences(ctx)[j]

\* The sequencing invariants of send_packet.
Sequencing(ctx) == NoGaps(ctx) /\ NoDoubleSend(ctx) /\ NoOverwrite(ctx)

C9_ClientNotActive ==
    \A packet \in Packets :
        (OnChannel(packet) /\ ~ClientActive(ctx_a)) =>
            /\ send_packet(ctx_a, packet).result # Ok
            /\ ChannelChecksPass(ctx_a, packet) =>
                   send_packet(ctx_a, packet).result =
                       Err([kind |-> "ClientNotActive",
                            status |-> ClientOf(ctx_a).status])

\* A call was refused for a Frozen client.
C9_Witness ==
    /\ last.op = "send_packet"
    /\ last.result = Err([kind |-> "ClientNotActive", status |-> "Frozen"])
    /\ ClientOf(ctx_a).status = "Frozen"

(***************************************************************************)
(* C10: send_packet never succeeds on a Closed channel, and a packet that  *)
(* satisfies all the other checks is accepted when the channel end is in   *)
(* Init, TryOpen or Open.                                                  *)
(***************************************************************************)
C10_NotClosed ==
    \A packet \in Packets :
        OnChannel(packet) =>
            /\ ChanEndOf(ctx_a).state = "Closed" => send_packet(ctx_a, packet).result # Ok
            /\ ( /\ ChanEndOf(ctx_a).state \in {"Init", "TryOpen", "Open"}
                 /\ CounterpartyMatches(ctx_a, packet)
                 /\ ClientActive(ctx_a)
                 /\ HeightNotExpired(ctx_a, packet)
                 /\ TimestampNotExpired(ctx_a, packet)
                 /\ SequenceMatches(ctx_a, packet) )
               => send_packet(ctx_a, packet).result = Ok

\* A packet was accepted on a channel that is still in Init.
C10_Witness ==
    /\ last.op = "send_packet"
    /\ last.result = Ok
    /\ ChanEndOf(ctx_a).state = "Init"

(***************************************************************************)
(* C11: send_packet fails, and leaves the host state as it is, whenever    *)
(* the packet's (port_id_on_b, chan_id_on_b) differs from the counterparty *)
(* (port id, channel id) of the sending channel end, the case of a channel *)
(* end whose counterparty channel id is not set yet included; on a channel *)
(* end that is not Closed the error is InvalidCounterparty.                *)
(***************************************************************************)
C11_CounterpartyMismatch ==
    \A packet \in Packets :
        (OnChannel(packet) /\ ~CounterpartyMatches(ctx_a, packet)) =>
            LET sent == send_packet(ctx_a, packet)
            IN  /\ sent.result # Ok
                /\ sent.ctx = ctx_a
                /\ NotClosed(ctx_a) => IsErr(sent.result, "InvalidCounterparty")

\* A call was refused on a channel end whose counterparty channel id is not
\* set.
C11_Witness ==
    /\ last.op = "send_packet"
    /\ IsErr(last.result, "InvalidCounterparty")
    /\ ChanEndOf(ctx_a).remote.channel_id = NoChannelId
    /\ ctx_a = Host(ChanEndOf(ctx_a).state, NoChannelId, ClientOf(ctx_a).status,
                    ClientOf(ctx_a).latest_height, n0)

\* The outcome of comparing the latest consensus timestamp of the
\* counterparty with the packet's timeout timestamp.
TimestampExpiry(ctx, packet) ==
    check_expiry(ctx.consensus_states[<<ClientA, ClientOf(ctx).latest_height>>].timestamp,
                 packet.timeout_timestamp_on_b)

(***************************************************************************)
(* C12: the timestamp check of send_packet treats only Expired as a        *)
(* failure.  For a packet that passes the checks before it, the call fails *)
(* with LowPacketTimestamp when the comparison yields Expired; when it     *)
(* yields NotExpired or Unknown the call goes on to the sequence check: it *)
(* succeeds when the sequence is the expected one and fails with           *)
(* InvalidPacketSequence otherwise.                                        *)
(***************************************************************************)
C12_OnlyExpiredFails ==
    \A packet \in Packets :
        ( /\ ChannelChecksPass(ctx_a, packet)
          /\ ClientActive(ctx_a)
          /\ HeightNotExpired(ctx_a, packet) )
        => LET r == send_packet(ctx_a, packet).result
           IN  /\ TimestampExpiry(ctx_a, packet) = "Expired" =>
                      r = Err([kind |-> "LowPacketTimestamp"])
               /\ TimestampExpiry(ctx_a, packet) \in {"NotExpired", "Unknown"} =>
                      r = IF SequenceMatches(ctx_a, packet)
                          THEN Ok
                          ELSE InvalidPacketSequence(packet.seq_on_a, NextSeqSend(ctx_a))

\* A packet whose timeout timestamp is not set (the comparison is Unknown)
\* was sent, and a later call was refused for its timeout timestamp.
C12_Witness ==
    /\ last.op = "send_packet"
    /\ last.result = Err([kind |-> "LowPacketTimestamp"])
    /\ Len(SendPacketEvents(ctx_a)) = 1
    /\ SendPacketEvents(ctx_a)[1].packet.timeout_timestamp_on_b = NoTimestamp

\* The events of a send, as IbcEvent values.
MessageChannel == [type |-> "Message", module |-> "channel"]
SendPacketEvent(ctx, packet) ==
    [type |-> "SendPacket",
     packet |-> packet,
     ordering |-> ChanEndOf(ctx).ordering,
     connection_id |-> ChanEndOf(ctx).connection_hops[1]]

\* The step is a successful send_packet of packet: it appended the marker,
\* then the SendPacket event of the packet, and one log line.
EmitsTwoEvents(packet) ==
    SendPacketOn(packet, NoFailure) =>
        /\ ctx_a'.events =
               ctx_a.events \o <<MessageChannel, SendPacketEvent(ctx_a, packet)>>
        /\ ctx_a'.logs = Append(ctx_a.logs, "success: packet send")

(***************************************************************************)
(* C13: every successful send_packet emits exactly two events, a           *)
(* Message(Channel) marker followed by one SendPacket{packet, ordering of  *)
(* the channel end, first connection hop of the channel end}, and appends  *)
(* one success log line; a failed send_packet emits no event; hence the    *)
(* number of SendPacket events equals the number of increments of          *)
(* next_sequence_send.  As stated, for the counters below the largest      *)
(* Sequence:                                                               *)
(***************************************************************************)
C13_Original ==
    [][last'.op = "send_packet" =>
          /\ last'.result = Ok => \A packet \in PacketsOn : EmitsTwoEvents(packet)
          /\ last'.result # Ok => ctx_a'.events = ctx_a.events
          /\ NextSeqSend(ctx_a) < SeqMax =>
                 Len(SendPacketEvents(ctx_a')) - Len(SendPacketEvents(ctx_a)) =
                     NextSeqSend(ctx_a') - NextSeqSend(ctx_a)]_vars

(***************************************************************************)
(* C13, amended: every successful send_packet emits exactly the two        *)
(* events, in that order, and appends one success log line; a send_packet  *)
(* that fails validation emits no event, and one that fails on a host      *)
(* write emits no SendPacket event (at most the marker).  Hence each       *)
(* SendPacket event comes with an increment of next_sequence_send (while   *)
(* the counter is below the largest Sequence), and there are as many       *)
(* SendPacket events as successful calls.                                  *)
(***************************************************************************)
C13_EventsPerSend ==
    [][last'.op = "send_packet" =>
          /\ last'.result = Ok => \A packet \in PacketsOn : EmitsTwoEvents(packet)
          /\ (last'.result # Ok /\ last'.result.error.kind \in ValidationErrors) =>
                 ctx_a'.events = ctx_a.events
          /\ last'.result # Ok =>
                 /\ SendPacketEvents(ctx_a') = SendPacketEvents(ctx_a)
                 /\ ctx_a'.events \in {ctx_a.events, Append(ctx_a.events, MessageChannel)}
          /\ (last'.result = Ok /\ NextSeqSend(ctx_a) < SeqMax) =>
                 NextSeqSend(ctx_a') = NextSeqSend(ctx_a) + 1
          /\ last'.result = Ok <=>
                 Len(SendPacketEvents(ctx_a')) = Len(SendPacketEvents(ctx_a)) + 1]_vars

\* A send succeeded after an earlier call had failed on the host's refusal
\* of the SendPacket event: the marker of the failed call, then the two
\* events of the send.
C13_Witness ==
    /\ last.op = "send_packet"
    /\ last.result = Ok
    /\ n0 = 1
    /\ NextSeqSend(ctx_a) = 3
    /\ Len(ctx_a.events) = 3
    /\ ctx_a.events[1] = MessageChannel
    /\ ctx_a.events[2] = MessageChannel
    /\ ctx_a.events[3].type = "SendPacket"
    /\ ctx_a.events[3].packet.seq_on_a = 2

\* The host state after the writes of send_packet_execute that come before
\* the write named failing.
Counted(ctx) ==
    [ctx EXCEPT !.next_sequence_send[SeqSendPath(PortA, ChanA)] = increment(@)]
Committed(ctx, packet) ==
    [Counted(ctx) EXCEPT !.packet_commitments =
        (CommitmentPath(PortA, ChanA, packet.seq_on_a) :>
            compute_packet_commitment(packet.data,
                                      packet.timeout_height_on_b,
                                      packet.timeout_timestamp_on_b)) @@ @]
Logged(ctx, packet) ==
    [Committed(ctx, packet) EXCEPT !.logs = Append(@, "success: packet send")]
Marked(ctx, packet) ==
    [Logged(ctx, packet) EXCEPT !.events = Append(@, MessageChannel)]
AppliedBefore(ctx, packet, failing) ==
    CASE failing = "store_next_sequence_send" -> ctx
      [] failing = "store_packet_commitment" -> Counted(ctx)
      [] failing = "log_message" -> Committed(ctx, packet)
      [] failing = "emit_ibc_event(Message)" -> Logged(ctx, packet)
      [] failing = "emit_ibc_event(SendPacket)" -> Marked(ctx, packet)

(***************************************************************************)
(* C14: execution failures are surfaced as they are, with no rollback.     *)
(* When a host write fails during send_packet_execute the call returns     *)
(* the host's error, the writes made before it stay (a failing             *)
(* store_packet_commitment leaves next_sequence_send incremented and no    *)
(* commitment stored; a failing emit_ibc_event leaves the counter and the  *)
(* commitment stored) and no later write is made.                          *)
(***************************************************************************)
C14_NoRollback ==
    [][(last'.op = "send_packet" /\ IsErr(last'.result, "HostError")) =>
          \A packet \in PacketsOn :
              SendPacketOn(packet, last'.result.error.write) =>
                  /\ send_packet_validate(ctx_a, packet) = Ok
                  /\ ctx_a' = AppliedBefore(ctx_a, packet, last'.result.error.write)
                  /\ last'.result.error.write = "store_packet_commitment" =>
                         /\ NextSeqSend(ctx_a') = increment(NextSeqSend(ctx_a))
                         /\ ctx_a'.packet_commitments = ctx_a.packet_commitments
                  /\ last'.result.error.write \in
                         {"emit_ibc_event(Message)", "emit_ibc_event(SendPacket)"} =>
                         /\ NextSeqSend(ctx_a') = increment(NextSeqSend(ctx_a))
                         /\ HasCommitment(ctx_a', packet.seq_on_a)
                         /\ SendPacketEvents(ctx_a') = SendPacketEvents(ctx_a)]_vars

\* The host refused the commitment of sequence 1: the call returned the
\* host's error, the counter is 2 and no commitment, event or log is stored.
C14_Witness ==
    /\ last.op = "send_packet"
    /\ last.result = HostError("store_packet_commitment")
    /\ n0 = 1
    /\ NextSeqSend(ctx_a) = 2
    /\ ~HasCommitment(ctx_a, 1)
    /\ ctx_a.events = <<>>
    /\ ctx_a.logs = <<>>

Millis(duration) == duration.secs * MillisPerSec + duration.subsec_millis
Ceil(a, b) == (a + b - 1) \div b

(***************************************************************************)
(* C16: calculate_block_delay(delay_period_time,                           *)
(* max_expected_time_per_block) returns                                    *)
(* ceil(delay_period_time / max_expected_time_per_block) for every delay   *)
(* period and every nonzero max expected time per block, 0 when            *)
(* max_expected_time_per_block is zero, and 0 when delay_period_time is    *)
(* zero.                                                                   *)
(***************************************************************************)
C16_BlockDelayCeil ==
    last.op = "calculate_block_delay" =>
        LET delay == Millis(last.delay_period_time)
            per_block == Millis(last.max_expected_time_per_block)
        IN  /\ per_block # 0 => last.result = Ceil(delay, per_block)
            /\ per_block = 0 => last.result = 0
            /\ delay = 0 => last.result = 0

\* The length window of each identifier type.
IdentifierWindow ==
    [validate_client_identifier |-> <<9, 64>>,
     validate_connection_identifier |-> <<10, 64>>,
     validate_port_identifier |-> <<2, 128>>,
     validate_channel_identifier |-> <<8, 64>>]

\* Every character of id is alphanumeric or one of . _ + - # [ ] < >
AllowedCharsOnly(id) ==
    \A i \in DOMAIN id :
        is_alphanumeric(id[i]) \/ id[i] \in {".", "_", "+", "-", "#", "[", "]", "<", ">"}

Max(a, b) == IF a >= b THEN a ELSE b

C19_NewIff ==
    last.op = "TrustThreshold::new" =>
        /\ last.result.tag = "Ok" <=>
               \/ last.numerator < last.denominator
               \/ (last.numerator = 0 /\ last.denominator = 0)
        /\ last.result.tag = "Ok" =>
               /\ last.result.value.numerator = last.numerator
               /\ last.result.value.denominator = last.denominator
        /\ last.result.tag = "Err" =>
               last.result = Err([kind |-> "InvalidTrustThreshold",
                                  numerator |-> last.numerator,
                                  denominator |-> last.denominator])

\* The 0/0 sentinel was constructed.
C19_Witness ==
    /\ last.op = "TrustThreshold::new"
    /\ last.numerator = 0
    /\ last.denominator = 0
    /\ last.result = OkValue(ZERO)

(***************************************************************************)
(* C20: the conversions of a trust threshold round-trip.  For every        *)
(* TrustThreshold t whose conversion to the fraction of the consensus      *)
(* library succeeds, converting that fraction back yields t, with the same *)
(* numerator and denominator, 1/3 in particular; and for every valid       *)
(* TrustThreshold t, converting to the raw Fraction and back with TryFrom  *)
(* succeeds and yields t.                                                  *)
(***************************************************************************)
C20_RoundTrip ==
    /\ last.op = "TrustThreshold::from" => last.result = OkValue(last.origin)
    /\ last.op = "TrustThreshold::try_from" => last.result = OkValue(last.origin)
    /\ (HoldsTrustThreshold(last) /\ last.result.value = ONE_THIRD) =>
           /\ TrustThresholdFraction_try_from(ONE_THIRD).tag = "Ok"
           /\ TrustThreshold_from(TrustThresholdFraction_try_from(ONE_THIRD).value) = ONE_THIRD

\* 1/3 was converted to the fraction of the consensus library and back.
C20_Witness ==
    /\ last.op = "TrustThreshold::from"
    /\ last.origin = ONE_THIRD
    /\ last.arg = TrustThresholdFraction(1, 3)
    /\ last.result = OkValue(ONE_THIRD)

(***************************************************************************)
(* C21: the two failures of a trust threshold are told apart.  A failed    *)
(* conversion of a TrustThreshold into the fraction of the consensus       *)
(* library is FailedTrustThresholdConversion carrying the numerator and    *)
(* the denominator of the threshold, never InvalidTrustThreshold; a failed *)
(* construction (TrustThreshold::new, or TryFrom of a raw Fraction) is     *)
(* InvalidTrustThreshold, never FailedTrustThresholdConversion; and the    *)
(* 0/0 sentinel, which constructs, fails the conversion.                   *)
(***************************************************************************)
C21_DistinctErrors ==
    /\ (last.op = "TrustThresholdFraction::try_from" /\ last.result.tag = "Err") =>
           last.result = Err([kind |-> "FailedTrustThresholdConversion",
                              numerator |-> last.arg.numerator,
                              denominator |-> last.arg.denominator])
    /\ (last.op \in {"TrustThreshold::new", "TrustThreshold::try_from"}
            /\ last.result.tag = "Err") =>
           last.result.error.kind = "InvalidTrustThreshold"
    /\ (HoldsTrustThreshold(last) /\ last.result.value = ZERO) =>
           TrustThresholdFraction_try_from(ZERO).tag = "Err"

\* The 0/0 sentinel was constructed and its conversion was refused.
C21_Witness ==
    /\ last.op = "TrustThresholdFraction::try_from"
    /\ last.arg = ZERO
    /\ last.result = Err([kind |-> "FailedTrustThresholdConversion",
                          numerator |-> 0, denominator |-> 0])

(***************************************************************************)
(* C22: converting a raw MsgChannelOpenTry whose deprecated                *)
(* previous_channel_id is not empty always fails, whatever the other       *)
(* fields hold; when the channel is present, well-formed and in state      *)
(* TryOpen, the error is InvalidChannelId carrying the previous channel id *)
(* given.                                                                  *)
(***************************************************************************)
C22_PreviousChannelIdRejected ==
    (last.op = "MsgChannelOpenTry::try_from" /\ last.arg.previous_channel_id # "") =>
        /\ last.result.tag = "Err"
        /\ (/\ last.arg.channel # None
            /\ ChannelEnd_try_from(last.arg.channel).tag = "Ok"
            /\ last.arg.channel.state = State_as_i32("TryOpen")) =>
               /\ last.result.error.kind = "InvalidChannelId"
               /\ last.result.error.actual = last.arg.previous_channel_id

\* A raw message that only its previous channel id keeps from being
\* accepted was refused with InvalidChannelId.
C22_Witness ==
    /\ last.op = "MsgChannelOpenTry::try_from"
    /\ last.arg.previous_channel_id = "channel-3"
    /\ MsgChannelOpenTry_try_from([last.arg EXCEPT !.previous_channel_id = ""]).tag = "Ok"
    /\ last.result.tag = "Err"
    /\ last.result.error.kind = "InvalidChannelId"
    /\ last.result.error.actual = "channel-3"

(***************************************************************************)
(* C23: MsgChannelOpenTry round-trips.  Every raw message the conversion   *)
(* accepts is the raw message its domain message converts to, and every    *)
(* domain message is the result of converting its raw message, a domain    *)
(* message with a non-empty version_proposal included.                     *)
(***************************************************************************)
C23_RoundTrip ==
    /\ (last.op = "RawMsgChannelOpenTry::from" /\ last.origin # None) =>
           last.result = OkValue(last.origin)
    /\ (last.op = "MsgChannelOpenTry::try_from" /\ last.origin # None) =>
           last.result = OkValue(last.origin)

(***************************************************************************)
(* C24: MsgChannelOpenInit, MsgConnectionOpenConfirm and                   *)
(* MsgAcknowledgement round-trip.  Every raw message the conversion        *)
(* accepts is the raw message its domain message converts to, and for      *)
(* every domain message the conversion of its raw message succeeds and     *)
(* returns it.                                                             *)
(***************************************************************************)
C24_RoundTrip ==
    /\ (/\ last.op \in {"RawMsgChannelOpenInit::from",
                        "RawMsgConnectionOpenConfirm::from",
                        "RawMsgAcknowledgement::from"}
        /\ last.origin # None) =>
           last.result = OkValue(last.origin)
    /\ (/\ last.op \in {"MsgChannelOpenInit::try_from",
                        "MsgConnectionOpenConfirm::try_from",
                        "MsgAcknowledgement::try_from"}
        /\ last.origin # None) =>
           last.result = OkValue(last.origin)

\* A domain MsgChannelOpenInit proposing a version, and not the one the raw
\* messages start from, came back from its raw message.
C24_Witness ==
    /\ last.op = "MsgChannelOpenInit::try_from"
    /\ last.origin # None
    /\ last.origin.version_proposal = Version_from("ics20-1")
    /\ last.origin.ordering = "Ordered"
    /\ last.result = OkValue(last.origin)

C26_TryOpenOnly ==
    last.op = "MsgChannelOpenTry::try_from" =>
        /\ last.result.tag = "Ok" =>
               /\ last.arg.channel # None
               /\ last.arg.channel.state = State_as_i32("TryOpen")
               /\ last.arg.channel.counterparty.channel_id # <<>>
        /\ last.arg.channel = None => last.result = Err([kind |-> "MissingChannel"])
        /\ (last.arg.channel # None /\ last.arg.channel.state # State_as_i32("TryOpen")) =>
               last.result.tag = "Err"
        /\ (last.arg.channel # None /\ last.arg.channel.counterparty.channel_id = <<>>) =>
               /\ last.result.tag = "Err"
               /\ (/\ ChannelEnd_try_from(last.arg.channel).tag = "Ok"
                   /\ last.arg.channel.state = State_as_i32("TryOpen")
                   /\ last.arg.previous_channel_id = ""
                   /\ PortId_from_str(last.arg.port_id).tag = "Ok") =>
                      last.result = Err([kind |-> "MissingCounterparty"])
        /\ last.result = Err([kind |-> "MissingCounterparty"]) =>
               /\ last.arg.channel # None
               /\ last.arg.channel.counterparty.channel_id = <<>>

\* A raw message in state TryOpen without a counterparty channel id, and
\* without a proof, was refused with MissingCounterparty.
C26_Witness ==
    /\ last.op = "MsgChannelOpenTry::try_from"
    /\ last.arg.channel # None
    /\ last.arg.channel.state = State_as_i32("TryOpen")
    /\ last.arg.channel.counterparty.channel_id = <<>>
    /\ last.arg.proof_init = <<>>
    /\ last.result = Err([kind |-> "MissingCounterparty"])

(***************************************************************************)
(* C27: verify_connection_hops_length of a MsgChannelOpenInit and of a     *)
(* MsgChannelOpenTry succeeds if and only if the message has exactly one   *)
(* connection hop, and fails with InvalidConnectionHopsLength for none and *)
(* for two or more.                                                        *)
(***************************************************************************)
C27_OneHop ==
    /\ last.op = "MsgChannelOpenInit::verify_connection_hops_length" =>
           /\ last.result = Ok <=> Len(last.arg.connection_hops_on_a) = 1
           /\ Len(last.arg.connection_hops_on_a) # 1 =>
                  /\ last.result.tag = "Err"
                  /\ last.result.error.kind = "InvalidConnectionHopsLength"
    /\ last.op = "MsgChannelOpenTry::verify_connection_hops_length" =>
           /\ last.result = Ok <=> Len(last.arg.connection_hops_on_b) = 1
           /\ Len(last.arg.connection_hops_on_b) # 1 =>
                  /\ last.result.tag = "Err"
                  /\ last.result.error.kind = "InvalidConnectionHopsLength"

\* A MsgChannelOpenInit converted from a raw message of two hops was
\* refused.
C27_Witness ==
    /\ last.op = "MsgChannelOpenInit::verify_connection_hops_length"
    /\ last.origin # None
    /\ Len(last.arg.connection_hops_on_a) = 2
    /\ last.result = Err([kind |-> "InvalidConnectionHopsLength",
                          expected |-> 1, actual |-> 2])

(***************************************************************************)
(* C28: a MsgChannelOpenTry, a MsgConnectionOpenConfirm and a              *)
(* MsgAcknowledgement are refused when the proof of the raw message is     *)
(* empty, when its proof height is missing and when its proof height has   *)
(* revision_height = 0, whatever the revision number; the error is         *)
(* InvalidProof for the proof and MissingHeight (MissingProofHeight for    *)
(* the connection message) for the height, when the message has nothing    *)
(* else to refuse and the proof is checked first.  A MsgAcknowledgement    *)
(* without a packet is MissingPacket.  No message accepted holds an empty  *)
(* proof or a proof height of revision_height 0.                           *)
(***************************************************************************)
ProofCarrying ==
    {"MsgChannelOpenTry::try_from", "MsgConnectionOpenConfirm::try_from",
     "MsgAcknowledgement::try_from"}

\* The proof of a raw message and of a domain message.
RawProof(raw_msg) ==
    CASE raw_msg.type = "RawMsgChannelOpenTry" -> raw_msg.proof_init
      [] raw_msg.type = "RawMsgConnectionOpenConfirm" -> raw_msg.proof_ack
      [] raw_msg.type = "RawMsgAcknowledgement" -> raw_msg.proof_acked

ProofOf(msg) ==
    CASE msg.type = "MsgChannelOpenTry" -> msg.proof_chan_end_on_a
      [] msg.type = "MsgConnectionOpenConfirm" -> msg.proof_conn_end_on_a
      [] msg.type = "MsgAcknowledgement" -> msg.proof_acked_on_b

ProofHeightOf(msg) ==
    CASE msg.type = "MsgChannelOpenTry" -> msg.proof_height_on_a
      [] msg.type = "MsgConnectionOpenConfirm" -> msg.proof_height_on_a
      [] msg.type = "MsgAcknowledgement" -> msg.proof_height_on_b

\* The raw message with a proof and a proof height in place of its own.
WithProof(raw_msg) ==
    CASE raw_msg.type = "RawMsgChannelOpenTry" ->
             [raw_msg EXCEPT !.proof_init = <<1>>, !.proof_height = RawHeight(0, 1)]
      [] raw_msg.type = "RawMsgConnectionOpenConfirm" ->
             [raw_msg EXCEPT !.proof_ack = <<1>>, !.proof_height = RawHeight(0, 1)]
      [] raw_msg.type = "RawMsgAcknowledgement" ->
             [raw_msg EXCEPT !.proof_acked = <<1>>, !.proof_height = RawHeight(0, 1)]

\* The conversion of a raw message of each type.
TryFrom(raw_msg) ==
    CASE raw_msg.type = "RawMsgChannelOpenTry" -> MsgChannelOpenTry_try_from(raw_msg)
      [] raw_msg.type = "RawMsgConnectionOpenConfirm" ->
             MsgConnectionOpenConfirm_try_from(raw_msg)
      [] raw_msg.type = "RawMsgAcknowledgement" -> MsgAcknowledgement_try_from(raw_msg)

NoProofHeight(raw_msg) ==
    \/ raw_msg.proof_height = None
    \/ raw_msg.proof_height.revision_height = 0

MissingHeightOf(raw_msg) ==
    IF raw_msg.type = "RawMsgConnectionOpenConfirm"
    THEN Err([kind |-> "MissingProofHeight"])
    ELSE Err([kind |-> "MissingHeight"])

C28_ProofRequired ==
    last.op \in ProofCarrying =>
        /\ RawProof(last.arg) = <<>> => last.result.tag = "Err"
        /\ NoProofHeight(last.arg) => last.result.tag = "Err"
        /\ TryFrom(WithProof(last.arg)).tag = "Ok" =>
               /\ RawProof(last.arg) = <<>> => last.result = Err([kind |-> "InvalidProof"])
               /\ (RawProof(last.arg) # <<>> /\ NoProofHeight(last.arg)) =>
                      last.result = MissingHeightOf(last.arg)
        /\ (last.arg.type = "RawMsgAcknowledgement" /\ last.arg.packet = None) =>
               last.result = Err([kind |-> "MissingPacket"])
        /\ last.result.tag = "Ok" =>
               /\ ProofOf(last.result.value).bytes # <<>>
               /\ ProofHeightOf(last.result.value).revision_height > 0

\* A raw MsgConnectionOpenConfirm with a proof height of revision 1 and
\* revision_height 0, and nothing else to refuse, was refused with
\* MissingProofHeight.
C28_Witness ==
    /\ last.op = "MsgConnectionOpenConfirm::try_from"
    /\ last.arg.proof_height = RawHeight(1, 0)
    /\ last.arg.proof_ack # <<>>
    /\ ConnectionId_from_str(last.arg.connection_id).tag = "Ok"
    /\ last.result = Err([kind |-> "MissingProofHeight"])

(***************************************************************************)
(* C30: recv_packet enforces the ordering of delivery.  On an Ordered      *)
(* channel a packet is accepted only if its sequence is the next sequence  *)
(* to receive, on an Unordered channel only if its sequence is not yet     *)
(* recorded as received; so no packet is delivered twice.                  *)
(***************************************************************************)
\* The packets delivered: those of the ReceivePacket events, in order.
Delivered(ctx) == [i \in DOMAIN ctx.events |-> ctx.events[i].packet]

\* The last call was a recv_packet that accepted its packet.
Received == last.op = "recv_packet" /\ last.result = Ok

AcceptedInOrder ==
    Received =>
        LET packet == last.msg.packet
            chan_end_on_b == last.before.channel_ends[
                ChannelEndPath(packet.port_id_on_b, packet.chan_id_on_b)]
        IN  /\ chan_end_on_b.ordering = "Ordered" =>
                   packet.seq_on_a = last.before.next_sequence_recv[
                       SeqRecvPath(packet.port_id_on_b, packet.chan_id_on_b)]
            /\ chan_end_on_b.ordering = "Unordered" =>
                   \A i \in DOMAIN last.before.events :
                       Delivered(last.before)[i] # packet

StateRank(state) ==
    CASE state = "Init" -> 1 [] state = "TryOpen" -> 2 [] state = "Open" -> 3
      [] state = "Closed" -> 4

\* Every end of the store before is still in the store after, in the same
\* state or a later one, and a new end starts in Init or TryOpen.
MovesForward(before, after) ==
    /\ Len(before) <= Len(after)
    /\ \A k \in DOMAIN before : StateRank(before[k].state) <= StateRank(after[k].state)
    /\ \A k \in DOMAIN after \ DOMAIN before : after[k].state \in {"Init", "TryOpen"}

\* C29: across every handshake step no ConnectionEnd leaves the order
\* Init, TryOpen, Open and no ChannelEnd the order Init, TryOpen, Open,
\* Closed for an earlier state (a ConnectionEnd is never Closed), and the
\* stores change only in a step whose validation pass accepted the message
\* against the state persisted before the step.
C29_ForwardOnly ==
    [][/\ MovesForward(ctx_a.connection_ends, ctx_a'.connection_ends)
       /\ MovesForward(ctx_a.channel_ends, ctx_a'.channel_ends)
       /\ \A k \in DOMAIN ctx_a'.connection_ends :
              ctx_a'.connection_ends[k].state \in {"Init", "TryOpen", "Open"}
       /\ (ctx_a' # ctx_a =>
              /\ last'.op = "handshake"
              /\ last'.result = Ok
              /\ handshake_validate(ctx_a, last'.msg) = Ok)]_vars

\* C29 witness: a channel that was created by its first handshake message
\* and opened has been closed on an Open connection, so both ends went
\* through their states.
C29_Witness ==
    /\ last.op = "handshake"
    /\ last.result = Ok
    /\ last.msg.type = "MsgTimeout"
    /\ ctx_a.channel_ends[last.msg.chan_id + 1].state = "Closed"
    /\ \E k \in DOMAIN ctx_a.connection_ends : ctx_a.connection_ends[k].state = "Open"

(***************************************************************************)
(* C31: send_packet_validate reports the first failure of a fixed order    *)
(***************************************************************************)
\* The host's entries a packet's checks read, each where the host has it.
HasChannelEnd(ctx, packet) ==
    <<packet.port_id_on_a, packet.chan_id_on_a>> \in DOMAIN ctx.channel_ends
ChannelEndFor(ctx, packet) == ctx.channel_ends[<<packet.port_id_on_a, packet.chan_id_on_a>>]
HasConnectionEnd(ctx, packet) ==
    /\ HasChannelEnd(ctx, packet)
    /\ ChannelEndFor(ctx, packet).connection_hops[1] \in DOMAIN ctx.connection_ends
ClientIdFor(ctx, packet) ==
    ctx.connection_ends[ChannelEndFor(ctx, packet).connection_hops[1]].client_id
HasClientState(ctx, packet) ==
    /\ HasConnectionEnd(ctx, packet)
    /\ ClientIdFor(ctx, packet) \in DOMAIN ctx.client_states
ClientStateFor(ctx, packet) == ctx.client_states[ClientIdFor(ctx, packet)]
ConsensusPathFor(ctx, packet) ==
    <<ClientIdFor(ctx, packet), ClientStateFor(ctx, packet).latest_height>>
HasConsensusState(ctx, packet) ==
    /\ HasClientState(ctx, packet)
    /\ ConsensusPathFor(ctx, packet) \in DOMAIN ctx.consensus_states
HasNextSequenceSend(ctx, packet) ==
    <<packet.port_id_on_a, packet.chan_id_on_a>> \in DOMAIN ctx.next_sequence_send

\* The conditions a packet can violate, in the order of the checks, each
\* stated on the host's entries alone (whatever the other checks say) and
\* paired with the kind of error that reports it.
Violations(ctx, packet) ==
    << <<"ChannelNotFound", ~HasChannelEnd(ctx, packet)>>,
       <<"ChannelClosed",
         HasChannelEnd(ctx, packet) /\ ChannelEndFor(ctx, packet).state = "Closed">>,
       <<"InvalidCounterparty",
         /\ HasChannelEnd(ctx, packet)
         /\ \/ ChannelEndFor(ctx, packet).remote.port_id # packet.port_id_on_b
            \/ ChannelEndFor(ctx, packet).remote.channel_id # packet.chan_id_on_b>>,
       <<"ConnectionNotFound", HasChannelEnd(ctx, packet) /\ ~HasConnectionEnd(ctx, packet)>>,
       <<"ClientStateNotFound", HasConnectionEnd(ctx, packet) /\ ~HasClientState(ctx, packet)>>,
       <<"ClientNotActive",
         HasClientState(ctx, packet) /\ ClientStateFor(ctx, packet).status # "Active">>,
       <<"LowPacketHeight",
         /\ HasClientState(ctx, packet)
         /\ packet.timeout_height_on_b # Never
         /\ ~HeightGt(packet.timeout_height_on_b.height,
                      ClientStateFor(ctx, packet).latest_height)>>,
       <<"ConsensusStateNotFound",
         HasClientState(ctx, packet) /\ ~HasConsensusState(ctx, packet)>>,
       <<"LowPacketTimestamp",
         /\ HasConsensusState(ctx, packet)
         /\ packet.timeout_timestamp_on_b # NoTimestamp
         /\ ctx.consensus_states[ConsensusPathFor(ctx, packet)].timestamp # NoTimestamp
         /\ ctx.consensus_states[ConsensusPathFor(ctx, packet)].timestamp
                > packet.timeout_timestamp_on_b>>,
       <<"MissingNextSendSeq", ~HasNextSequenceSend(ctx, packet)>>,
       <<"InvalidPacketSequence",
         /\ HasNextSequenceSend(ctx, packet)
         /\ ctx.next_sequence_send[<<packet.port_id_on_a, packet.chan_id_on_a>>]
                # packet.seq_on_a>> >>

\* The kinds of the conditions the packet violates, in the order of the checks.
Violated(ctx, packet) ==
    SelectSeq(Violations(ctx, packet), LAMBDA violation : violation[2])

\* What a validation answered: Ok, or the kind of its error.
Answer(result) == IF result.tag = "Ok" THEN "Ok" ELSE result.error.kind

\* C31: on every host and for every packet, send_packet_validate accepts
\* exactly the packets that violate none of the conditions and otherwise
\* reports the error of the earliest violated condition in the order
\* channel-end lookup, channel not Closed, counterparty match, connection
\* lookup, client-state lookup, client Active, timeout height,
\* consensus-state lookup, timeout timestamp, sequence lookup, sequence.
C31_FirstFailure ==
    \A packet \in PacketsOfHosts :
        Answer(send_packet_validate(ctx_a, packet)) =
            IF Violated(ctx_a, packet) = <<>> THEN "Ok"
            ELSE Head(Violated(ctx_a, packet))[1]

\* C31 witness: a validation has just reported LowPacketHeight for a packet
\* whose sequence is also wrong, and on the same host a packet with a wrong
\* sequence on a Closed channel of a client that is not Active gets the
\* closed-channel error.
C31_Witness ==
    /\ last.op = "send_packet_validate"
    /\ Answer(last.result) \in {"LowPacketHeight", "ChannelClosed"}
    /\ \E packet \in PacketsOfHosts :
           /\ send_packet_validate(ctx_a, packet) = last.result
           /\ Len(Violated(ctx_a, packet)) >= 2
           /\ \E k \in 2..Len(Violated(ctx_a, packet)) :
                  Violated(ctx_a, packet)[k][1] = "InvalidPacketSequence"

(***************************************************************************)
(* C32: send_packet_execute does not validate                              *)
(***************************************************************************)
\* What send_packet_execute(ctx, packet) stores on a host that holds the
\* packet's counter: the counter moved to next, and the packet's commitment
\* at the path of the packet's own sequence, whatever was there.
ExecutionStores(ctx, packet, next) ==
    LET seq_send_path == <<packet.port_id_on_a, packet.chan_id_on_a>>
        commitment_path == <<packet.port_id_on_a, packet.chan_id_on_a, packet.seq_on_a>>
        executed == send_packet_execute(ctx, packet).ctx
    IN  /\ executed.next_sequence_send =
               [ctx.next_sequence_send EXCEPT ![seq_send_path] = next]
        /\ commitment_path \in DOMAIN executed.packet_commitments
        /\ executed.packet_commitments[commitment_path] =
               <<"commitment", packet.data, packet.timeout_height_on_b,
                 packet.timeout_timestamp_on_b>>

\* The execution follows a validation of the same packet that succeeded on
\* the same state: then the commitment goes to the counter's value.
ValidatedExecution(ctx, packet) ==
    send_packet_validate(ctx, packet) = Ok =>
        /\ packet.seq_on_a = ctx.next_sequence_send[<<packet.port_id_on_a, packet.chan_id_on_a>>]
        /\ send_packet_execute(ctx, packet).result = Ok

\* The execution of a packet whose sequence is not the counter's value, on
\* a host without gaps and below the largest Sequence, leaves a gap.
UnvalidatedExecution(ctx, packet) ==
    (/\ packet.chan_id_on_a = ChanA
     /\ NoGaps(ctx)
     /\ NextSeqSend(ctx) < SeqMax
     /\ packet.seq_on_a # NextSeqSend(ctx)) =>
        ~NoGaps(send_packet_execute(ctx, packet).ctx)

OnlyThisSend(before, after, packet) ==
    LET seq_send_path == <<packet.port_id_on_a, packet.chan_id_on_a>>
        commitment_path == <<packet.port_id_on_a, packet.chan_id_on_a, packet.seq_on_a>>
    IN  /\ after.channel_ends = before.channel_ends
        /\ after.connection_ends = before.connection_ends
        /\ after.client_states = before.client_states
        /\ after.consensus_states = before.consensus_states
        /\ DOMAIN after.next_sequence_send = DOMAIN before.next_sequence_send
        /\ \A path \in DOMAIN before.next_sequence_send \ {seq_send_path} :
               after.next_sequence_send[path] = before.next_sequence_send[path]
        /\ DOMAIN before.packet_commitments \subseteq DOMAIN after.packet_commitments
        /\ DOMAIN after.packet_commitments \subseteq
               DOMAIN before.packet_commitments \cup {commitment_path}
        /\ \A path \in DOMAIN before.packet_commitments \ {commitment_path} :
               after.packet_commitments[path] = before.packet_commitments[path]

\* C33: on every host, a send_packet call (and a send_packet_execute called
\* on its own) for a packet of channel (port, channel) leaves the channel
\* ends, the connection ends, the client states, the consensus states, the
\* counters of every other channel and every commitment at another path,
\* of this channel or of another, as they were.
C33_Frame ==
    /\ \A packet \in PacketsOfHosts :
           OnlyThisSend(ctx_a, send_packet(ctx_a, packet).ctx, packet)
    /\ \A packet \in PacketsToExecute :
           OnlyThisSend(ctx_a, send_packet_execute(ctx_a, packet).ctx, packet)

\* C33 witness: a send on ChanA has just succeeded on a host that holds a
\* commitment and a moved counter of ChanC, both as the send on ChanC left
\* them.
C33_Witness ==
    /\ last.op = "send_packet"
    /\ last.result = Ok
    /\ Len(SendPacketEvents(ctx_a)) = 2
    /\ SendPacketEvents(ctx_a)[2].packet.chan_id_on_a = ChanA
    /\ LET other == SendPacketEvents(ctx_a)[1].packet
       IN  /\ other.chan_id_on_a = ChanC
           /\ ctx_a.next_sequence_send[<<PortA, ChanC>>] = 2
           /\ ctx_a.packet_commitments[<<PortA, ChanC, other.seq_on_a>>] =
                  <<"commitment", other.data, other.timeout_height_on_b,
                    other.timeout_timestamp_on_b>>
           /\ HasCommitment(ctx_a, SendPacketEvents(ctx_a)[2].packet.seq_on_a)

(***************************************************************************)
(* C34: calculate_block_delay reads the whole seconds only                 *)
(***************************************************************************)
\* The durations with the whole seconds of duration.
SameWholeSeconds(duration, max_secs) ==
    {other \in Durations(max_secs) : other.secs = duration.secs}

\* C34: the result of every call of calculate_block_delay is the result for
\* any other pair of durations with the same whole seconds, it is the
\* quotient of the whole seconds rounded up, and it is 0 whenever
\* max_expected_time_per_block is shorter than one second, zero or not.
C34_WholeSeconds ==
    last.op = "calculate_block_delay" =>
        /\ \A delay \in SameWholeSeconds(last.delay_period_time, MaxDelaySecs),
              per_block \in SameWholeSeconds(last.max_expected_time_per_block, MaxBlockSecs) :
               calculate_block_delay(delay, per_block) = last.result
        /\ last.max_expected_time_per_block.secs # 0 =>
               last.result = Ceil(last.delay_period_time.secs,
                                  last.max_expected_time_per_block.secs)
        /\ Millis(last.max_expected_time_per_block) < MillisPerSec => last.result = 0

\* C34 witness: a call with a delay period of whole seconds and a
\* max_expected_time_per_block of 500 ms returned 0.
C34_Witness ==
    /\ last.op = "calculate_block_delay"
    /\ last.delay_period_time.secs > 0
    /\ last.max_expected_time_per_block = Duration(0, 500)
    /\ last.result = 0

(***************************************************************************)
(* C35: the two errors of validate_identifier_chars                        *)
(***************************************************************************)
\* C35: every call of validate_identifier_chars fails with ContainSeparator
\* when the string has a '/' anywhere, whatever else it has; fails with
\* InvalidCharacter when it has no '/' and some character outside the
\* allowed set; and succeeds otherwise, on the empty string too.
C35_CharsErrors ==
    last.op = "validate_identifier_chars" =>
        Answer(last.result) =
            IF \E i \in DOMAIN last.id : last.id[i] = "/" THEN "ContainSeparator"
            ELSE IF ~AllowedCharsOnly(last.id) THEN "InvalidCharacter"
            ELSE "Ok"

\* C35 witness: a string with an invalid character before its '/' was
\* refused for the separator.
C35_Witness ==
    /\ last.op = "validate_identifier_chars"
    /\ \E i, j \in DOMAIN last.id : i < j /\ last.id[i] = "@" /\ last.id[j] = "/"
    /\ Answer(last.result) = "ContainSeparator"

(***************************************************************************)
(* C36: the window of validate_identifier_length                           *)
(***************************************************************************)
\* C36: every call of validate_identifier_length(s, min, max) succeeds
\* exactly when max(min, 1) <= len(s) <= max, len being the length in
\* bytes, and fails with InvalidLength otherwise; so the empty string and
\* every string under min > max are refused.
C36_LengthWindow ==
    last.op = "validate_identifier_length" =>
        LET at_least == IF last.min >= 1 THEN last.min ELSE 1
            in_window == at_least <= str_len(last.id) /\ str_len(last.id) <= last.max
        IN  /\ Answer(last.result) = IF in_window THEN "Ok" ELSE "InvalidLength"
            /\ last.id = <<>> => last.result # Ok
            /\ last.min > last.max => last.result # Ok

\* C36 witness: the empty string was refused under min = 0.
C36_Witness ==
    /\ last.op = "validate_identifier_length"
    /\ last.id = <<>>
    /\ last.min = 0
    /\ last.max > 0
    /\ Answer(last.result) = "InvalidLength"

(***************************************************************************)
(* C37: every TrustThreshold of the public API is a fraction below 1 or    *)
(* 0/0                                                                     *)
(***************************************************************************)
\* The calls that hand out a TrustThreshold.
TrustThresholdSources ==
    {"TrustThreshold::new", "TrustThreshold::try_from", "TrustThreshold::try_from(raw)",
     "TrustThreshold::from", "TrustThreshold::from(library)",
     "TrustThreshold::default", "TrustThreshold::constant"}

====
